---- MODULE Spec2Model ----
(***************************************************************************)
(* Model of PipelinedRpcServicer (magma/pipelined/rpc_servicer.py): the    *)
(* gRPC handlers that run on request threads, the units of work they post  *)
(* to the single event loop with call_soon_threadsafe, and the callbacks   *)
(* the loop runs (_activate_flows, _deactivate_flows, _setup_flows).       *)
(*                                                                         *)
(* The controllers, the version mapper and the epoch check are other       *)
(* modules of the repository; they are modelled at their interface: every  *)
(* call made on them is appended to `log` in the order the servicer makes  *)
(* it, and the results they return are chosen nondeterministically.        *)
(***************************************************************************)
EXTENDS Integers, Sequences, FiniteSets, TLC

VARIABLES
    enabled,       \* service_manager.is_app_enabled: the set of enabled app names
    setup_type,    \* service_config['setup_type']
    th,            \* request-handling threads: position, request, response
    queue,         \* callbacks posted to the loop with call_soon_threadsafe, FIFO
    running,       \* the callback the loop is executing, with its position
    fut,           \* the futures handed to the callbacks, by request id
    nextId,        \* next request id (orders the requests as they arrive)
    arrived,       \* the requests received, by request id
    version,       \* session_rule_version_mapper: (imsi, ip, rule) -> version
    epoch,         \* per controller: last epoch accepted by check_setup_request_epoch
    lastResult,    \* per controller: epoch and result of its last handle_restart
    prefix_store,  \* interface_to_prefix_mapper
    tunnel_store,  \* tunnel_id_mapper
    metrics,       \* failure counters, by (counter, imsi, rule_id)
    outcome,       \* what _install_flows_gx/_gy returned, by <<request id, family>>
    log            \* calls made on the version mapper and the controllers, in order

vars == <<enabled, setup_type, th, queue, running, fut, nextId, arrived, version, epoch,
          lastResult, prefix_store, tunnel_store, metrics, outcome, log>>

---------------------------------------------------------------------------
(* Bounds *)

MaxRules == 2       \* rules (static ids and dynamic rules together) on one request
MaxReqs == 2        \* requests issued in the multi-request specifications
MaxEpoch == 2       \* epochs carried by setup requests: 0..MaxEpoch
MaxSnapshot == 2    \* sub-requests in a setup snapshot
MaxMacLen == 18     \* characters of a mac_addr: 0..MaxMacLen

---------------------------------------------------------------------------
(* Values *)

ENFORCEMENT == "enforcement"
ENFORCEMENT_STATS == "enforcement_stats"
GY == "gy"
Apps == {ENFORCEMENT, ENFORCEMENT_STATS}

SetupTypes == {"CWF", "LTE"}
Origins == {"GX", "GY"}
RuleIds == {"ruleA", "ruleB"}
Sids == {"IMSI001"}
Ipv4Addrs == {"", "10.0.0.5"}
Ipv6Addrs == {"", "fe80::1"}
TunnelIds == {0, 1}
Wildcard == "*"

ENFORCEMENT_STATS_RULE_INSTALL_FAIL == "enforcement_stats_rule_install_fail"
ENFORCEMENT_RULE_INSTALL_FAIL == "enforcement_rule_install_fail"
Counters == {ENFORCEMENT_STATS_RULE_INSTALL_FAIL, ENFORCEMENT_RULE_INSTALL_FAIL}

Range(s) == {s[i] : i \in DOMAIN s}

\* Duplicate-free sequences over S of length at most n.
SeqsUpTo(S, n) ==
    UNION {{s \in [1..k -> S] : \A i, j \in 1..k : s[i] = s[j] => i = j} : k \in 0..n}

PolicyRule(id) == [id |-> id]

RuleModResult(rule_id, result) == [rule_id |-> rule_id, result |-> result]

ActivateFlowsResult(static, dynamic) ==
    [static_rule_results |-> static, dynamic_rule_results |-> dynamic]

\* One request record for the three policy rpcs; a field a message does not
\* carry holds its protobuf default.
Request(kind, sid, ip, ip6, origin, rule_ids, dynamic_rules, up, down, rm, ep, reqs) ==
    [kind |-> kind, sid |-> sid, ip_addr |-> ip, ipv6_addr |-> ip6,
     origin |-> origin, rule_ids |-> rule_ids, dynamic_rules |-> dynamic_rules,
     uplink_tunnel |-> up, downlink_tunnel |-> down,
     remove_default_drop_flows |-> rm, epoch |-> ep, requests |-> reqs]

NoRequest == Request("none", "", "", "", "GX", <<>>, <<>>, 0, 0, FALSE, 0, <<>>)

convert_ipv4_str_to_ip_proto(ip) == [version |-> "IPV4", address |-> ip]

convert_ipv6_bytes_to_ip_proto(ip6) == [version |-> "IPV6", address |-> ip6]

IPAddresses ==
    {convert_ipv4_str_to_ip_proto(a) : a \in Ipv4Addrs}
        \cup {convert_ipv6_bytes_to_ip_proto(a) : a \in Ipv6Addrs \ {""}}

VersionKeys == Sids \X IPAddresses \X (RuleIds \cup {Wildcard})

MetricKeys == Counters \X Sids \X RuleIds

\* A call made by the servicer on a collaborator, as a test double records it.
\* res is what the collaborator returned (<<>> when the servicer does not read it).
Call(rid, fam, ctrl, op, static, dynamic, reqs, res) ==
    [rid |-> rid, fam |-> fam, ctrl |-> ctrl, op |-> op,
     static |-> static, dynamic |-> dynamic, reqs |-> reqs, res |-> res]

\* The part of the state a callback reads and writes while it runs.
World(rid, fam, ver, met, lg) ==
    [rid |-> rid, fam |-> fam, version |-> ver, metrics |-> met, log |-> lg]

---------------------------------------------------------------------------
(* Collaborators, at their interface *)

\* session_rule_version_mapper.update_version(imsi, ip, rule_id=None)
update_version(w, imsi, ip, rule_id) ==
    [w EXCEPT !.version[<<imsi, ip, rule_id>>] = @ + 1,
              !.log = Append(@, Call(w.rid, w.fam, "version", "update_version",
                                     IF rule_id = Wildcard THEN <<>> ELSE <<rule_id>>,
                                     <<>>, <<>>, <<>>))]

\* controller.activate_rules(...): one result per rule it was given, in order;
\* failS and failD are the ids this controller fails.
activate_rules(static_rule_ids, dynamic_rules, failS, failD) ==
    ActivateFlowsResult(
        [i \in DOMAIN static_rule_ids |->
            RuleModResult(static_rule_ids[i],
                          IF static_rule_ids[i] \in failS THEN "FAILURE" ELSE "SUCCESS")],
        [i \in DOMAIN dynamic_rules |->
            RuleModResult(dynamic_rules[i].id,
                          IF dynamic_rules[i].id \in failD THEN "FAILURE" ELSE "SUCCESS")])

---------------------------------------------------------------------------
(* Module-level helpers of rpc_servicer.py *)

\* Mutant: one list of failures, static and dynamic together, used for both.
RetrieveFailedTogether(activate_flow_result) ==
    LET failed == SelectSeq(activate_flow_result.static_rule_results
                                \o activate_flow_result.dynamic_rule_results,
                            LAMBDA result : result.result = "FAILURE")
    IN  <<failed, failed>>

_retrieve_failed_results(activate_flow_result) ==
    <<SelectSeq(activate_flow_result.static_rule_results,
                LAMBDA result : result.result = "FAILURE"),
      SelectSeq(activate_flow_result.dynamic_rule_results,
                LAMBDA result : result.result = "FAILURE")>>

\* Mutant: the rules that failed in enforcement_stats are not taken out.
FilterKeepsFailedStatic(request, failed_results) == request.rule_ids

_filter_failed_static_rule_ids(request, failed_results) ==
    LET failed_static_rule_ids == {failed_results[i].rule_id : i \in DOMAIN failed_results}
    IN  SelectSeq(request.rule_ids, LAMBDA rule_id : rule_id \notin failed_static_rule_ids)

\* Mutant: one failure in enforcement_stats and no dynamic rule goes further.
FilterAbortsOnFailedDynamic(request, failed_results) ==
    IF failed_results # <<>> THEN <<>> ELSE request.dynamic_rules

_filter_failed_dynamic_rules(request, failed_results) ==
    LET failed_dynamic_rule_ids == {failed_results[i].rule_id : i \in DOMAIN failed_results}
    IN  SelectSeq(request.dynamic_rules, LAMBDA rule : rule.id \notin failed_dynamic_rule_ids)

RECURSIVE ReportFailures(_, _, _, _)
\* The loop of _report_enforcement_failures / _report_enforcement_stats_failures
\* over chain(static_rule_results, dynamic_rule_results).
ReportFailures(met, counter, rule_results, imsi) ==
    IF rule_results = <<>> THEN met
    ELSE LET result == Head(rule_results)
             met1 == IF result.result = "SUCCESS" THEN met
                     ELSE [met EXCEPT ![<<counter, imsi, result.rule_id>>] = @ + 1]
         IN  ReportFailures(met1, counter, Tail(rule_results), imsi)

_report_enforcement_failures(met, activate_flow_result, imsi) ==
    ReportFailures(met, ENFORCEMENT_RULE_INSTALL_FAIL,
                   activate_flow_result.static_rule_results
                       \o activate_flow_result.dynamic_rule_results, imsi)

_report_enforcement_stats_failures(met, activate_flow_result, imsi) ==
    ReportFailures(met, ENFORCEMENT_STATS_RULE_INSTALL_FAIL,
                   activate_flow_result.static_rule_results
                       \o activate_flow_result.dynamic_rule_results, imsi)

---------------------------------------------------------------------------
(* PipelinedRpcServicer: activation, as run on the loop *)

RECURSIVE UpdateVersions(_, _, _, _)
\* for rule_id in ids: update_version(imsi, ip, rule_id)
UpdateVersions(w, imsi, ip, ids) ==
    IF ids = <<>> THEN w
    ELSE UpdateVersions(update_version(w, imsi, ip, Head(ids)), imsi, ip, Tail(ids))

\* Mutant: only the static rule ids are updated.
UpdateVersionStaticOnly(w, request, ipv4) ==
    UpdateVersions(w, request.sid, ipv4, request.rule_ids)

_update_version(w, request, ipv4) ==
    LET w1 == UpdateVersions(w, request.sid, ipv4, request.rule_ids)
    IN  UpdateVersions(w1, request.sid, ipv4,
                       [i \in DOMAIN request.dynamic_rules |-> request.dynamic_rules[i].id])

\* o: the ids each controller fails on this call (statsS, statsD, downS, downD).
\* Mutant: the stats controller is called whether its app is enabled or not.
StatsActivatedAlways(w, imsi, ip_addr, static_rule_ids, dynamic_rules, o) ==
    LET enforcement_stats_res ==
            activate_rules(static_rule_ids, dynamic_rules, o.statsS, o.statsD)
        w1 == [w EXCEPT !.log = Append(@, Call(w.rid, w.fam, ENFORCEMENT_STATS,
                                               "activate_rules", static_rule_ids,
                                               dynamic_rules, <<>>,
                                               enforcement_stats_res))]
    IN  [w |-> [w1 EXCEPT !.metrics = _report_enforcement_stats_failures(
                                          @, enforcement_stats_res, imsi)],
         res |-> enforcement_stats_res]

_activate_rules_in_enforcement_stats(w, imsi, ip_addr, static_rule_ids, dynamic_rules, o) ==
    IF ENFORCEMENT_STATS \notin enabled
    THEN [w |-> w, res |-> ActivateFlowsResult(<<>>, <<>>)]
    ELSE LET enforcement_stats_res ==
                 activate_rules(static_rule_ids, dynamic_rules, o.statsS, o.statsD)
             w1 == [w EXCEPT !.log = Append(@, Call(w.rid, w.fam, ENFORCEMENT_STATS,
                                                    "activate_rules", static_rule_ids,
                                                    dynamic_rules, <<>>,
                                                    enforcement_stats_res))]
         IN  [w |-> [w1 EXCEPT !.metrics = _report_enforcement_stats_failures(
                                               @, enforcement_stats_res, imsi)],
              res |-> enforcement_stats_res]

_activate_rules_in_enforcement(w, imsi, ip_addr, static_rule_ids, dynamic_rules, o) ==
    LET enforcement_res == activate_rules(static_rule_ids, dynamic_rules, o.downS, o.downD)
        w1 == [w EXCEPT !.log = Append(@, Call(w.rid, w.fam, ENFORCEMENT, "activate_rules",
                                               static_rule_ids, dynamic_rules, <<>>,
                                               enforcement_res))]
    IN  [w |-> [w1 EXCEPT !.metrics = _report_enforcement_failures(@, enforcement_res, imsi)],
         res |-> enforcement_res]

_activate_rules_in_gy(w, imsi, ip_addr, static_rule_ids, dynamic_rules, o) ==
    LET gy_res == activate_rules(static_rule_ids, dynamic_rules, o.downS, o.downD)
    IN  [w |-> [w EXCEPT !.log = Append(@, Call(w.rid, w.fam, GY, "activate_rules",
                                                static_rule_ids, dynamic_rules, <<>>,
                                                gy_res))],
         res |-> gy_res]

\* Mutant: the enforcer is called first, enforcement_stats after it.
InstallGxEnforcementFirst(w, request, ip_address, o) ==
    LET w1 == _update_version(w, request, ip_address)
        enf == _activate_rules_in_enforcement(
                   w1, request.sid, ip_address, request.rule_ids, request.dynamic_rules, o)
        stats == _activate_rules_in_enforcement_stats(
                     enf.w, request.sid, ip_address, request.rule_ids,
                     request.dynamic_rules, o)
        failed == _retrieve_failed_results(stats.res)
    IN  [w |-> stats.w,
         res |-> ActivateFlowsResult(enf.res.static_rule_results \o failed[1],
                                     enf.res.dynamic_rule_results \o failed[2])]

_install_flows_gx(w, request, ip_address, o) ==
    LET w1 == _update_version(w, request, ip_address)
        stats == _activate_rules_in_enforcement_stats(
                     w1, request.sid, ip_address, request.rule_ids, request.dynamic_rules, o)
        failed == _retrieve_failed_results(stats.res)
        static_rule_ids == _filter_failed_static_rule_ids(request, failed[1])
        dynamic_rules == _filter_failed_dynamic_rules(request, failed[2])
        enf == _activate_rules_in_enforcement(
                   stats.w, request.sid, ip_address, static_rule_ids, dynamic_rules, o)
    IN  [w |-> enf.w,
         res |-> ActivateFlowsResult(enf.res.static_rule_results \o failed[1],
                                     enf.res.dynamic_rule_results \o failed[2])]

\* Mutant: the versions are updated after the controllers were called.
InstallGyUpdatesVersionLast(w, request, ip_address, o) ==
    LET stats == _activate_rules_in_enforcement_stats(
                     w, request.sid, ip_address, request.rule_ids, request.dynamic_rules, o)
        failed == _retrieve_failed_results(stats.res)
        static_rule_ids == _filter_failed_static_rule_ids(request, failed[1])
        dynamic_rules == _filter_failed_dynamic_rules(request, failed[2])
        gy == _activate_rules_in_gy(
                  stats.w, request.sid, ip_address, static_rule_ids, dynamic_rules, o)
    IN  [w |-> _update_version(gy.w, request, ip_address),
         res |-> ActivateFlowsResult(gy.res.static_rule_results \o failed[1],
                                     gy.res.dynamic_rule_results \o failed[2])]

_install_flows_gy(w, request, ip_address, o) ==
    LET w1 == _update_version(w, request, ip_address)
        stats == _activate_rules_in_enforcement_stats(
                     w1, request.sid, ip_address, request.rule_ids, request.dynamic_rules, o)
        failed == _retrieve_failed_results(stats.res)
        static_rule_ids == _filter_failed_static_rule_ids(request, failed[1])
        dynamic_rules == _filter_failed_dynamic_rules(request, failed[2])
        gy == _activate_rules_in_gy(
                  stats.w, request.sid, ip_address, static_rule_ids, dynamic_rules, o)
    IN  [w |-> gy.w,
         res |-> ActivateFlowsResult(gy.res.static_rule_results \o failed[1],
                                     gy.res.dynamic_rule_results \o failed[2])]

\* Mutant: the origin is not tested, every request going to the enforcer.
InstallFlowsAlwaysGx(w, request, ip, o) ==
    _install_flows_gx(w, request, ip, o)

\* if request.request_origin.type == RequestOriginType.GX: ... else: ...
InstallFlows(w, request, ip, o) ==
    IF request.origin = "GX" THEN _install_flows_gx(w, request, ip, o)
    ELSE _install_flows_gy(w, request, ip, o)

\* The outcomes the two controllers of one family's pipeline can report: the
\* stats controller on the rules requested, the downstream one on any rule.
Oracles(request) ==
    LET S == Range(request.rule_ids)
        D == {request.dynamic_rules[i].id : i \in DOMAIN request.dynamic_rules}
    IN  [statsS : IF ENFORCEMENT_STATS \in enabled THEN SUBSET S ELSE {{}},
         statsD : IF ENFORCEMENT_STATS \in enabled THEN SUBSET D ELSE {{}},
         downS : SUBSET S, downD : SUBSET D]

_update_ipv6_prefix_store(store, ipv6_addr) ==
    store \cup {[interface |-> <<"interface_id", ipv6_addr>>,
                 prefix |-> <<"prefix", ipv6_addr>>]}

_update_tunnel_map_store(store, uplink_tunnel, downlink_tunnel) ==
    store \cup {<<uplink_tunnel, downlink_tunnel>>}

\* Mutant: the ipv4 branch runs whatever the deployment and the address.
RunsIpv4Always(request) == TRUE

\* if self._service_config['setup_type'] == 'CWF' or request.ip_addr:
RunsIpv4(request) == setup_type = "CWF" \/ request.ip_addr # ""

\* if request.ipv6_addr:
RunsIpv6(request) == request.ipv6_addr # ""

\* Mutant: one tunnel id is enough.
HasEitherTunnel(request) == request.uplink_tunnel # 0 \/ request.downlink_tunnel # 0

\* if request.uplink_tunnel and request.downlink_tunnel:
HasTunnels(request) == request.uplink_tunnel # 0 /\ request.downlink_tunnel # 0

---------------------------------------------------------------------------
(* PipelinedRpcServicer: deactivation, as run on the loop *)

\* Mutant: no wildcard update when no rule id is given.
DeactivateGxWithoutWildcard(w, request, ip_address) ==
    LET w1 == IF request.rule_ids # <<>>
              THEN UpdateVersions(w, request.sid, ip_address, request.rule_ids)
              ELSE w
        w2 == IF request.remove_default_drop_flows
              THEN [w1 EXCEPT !.log = Append(@, Call(w.rid, w.fam, ENFORCEMENT_STATS,
                                                     "deactivate_default_flow",
                                                     <<>>, <<>>, <<>>, <<>>))]
              ELSE w1
    IN  [w2 EXCEPT !.log = Append(@, Call(w.rid, w.fam, ENFORCEMENT, "deactivate_rules",
                                          request.rule_ids, <<>>, <<>>, <<>>))]

\* Mutant: the enforcer's rules are removed before the default flow.
DeactivateGxRulesFirst(w, request, ip_address) ==
    LET w1 == IF request.rule_ids # <<>>
              THEN UpdateVersions(w, request.sid, ip_address, request.rule_ids)
              ELSE update_version(w, request.sid, ip_address, Wildcard)
        w2 == [w1 EXCEPT !.log = Append(@, Call(w.rid, w.fam, ENFORCEMENT, "deactivate_rules",
                                                request.rule_ids, <<>>, <<>>, <<>>))]
    IN  IF request.remove_default_drop_flows
        THEN [w2 EXCEPT !.log = Append(@, Call(w.rid, w.fam, ENFORCEMENT_STATS,
                                               "deactivate_default_flow",
                                               <<>>, <<>>, <<>>, <<>>))]
        ELSE w2

_deactivate_flows_gx(w, request, ip_address) ==
    LET w1 == IF request.rule_ids # <<>>
              THEN UpdateVersions(w, request.sid, ip_address, request.rule_ids)
              ELSE update_version(w, request.sid, ip_address, Wildcard)
        w2 == IF request.remove_default_drop_flows
              THEN [w1 EXCEPT !.log = Append(@, Call(w.rid, w.fam, ENFORCEMENT_STATS,
                                                     "deactivate_default_flow",
                                                     <<>>, <<>>, <<>>, <<>>))]
              ELSE w1
    IN  [w2 EXCEPT !.log = Append(@, Call(w.rid, w.fam, ENFORCEMENT, "deactivate_rules",
                                          request.rule_ids, <<>>, <<>>, <<>>))]

_deactivate_flows_gy(w, request, ip_address) ==
    LET w1 == IF request.rule_ids # <<>>
              THEN UpdateVersions(w, request.sid, ip_address, request.rule_ids)
              ELSE w
    IN  [w1 EXCEPT !.log = Append(@, Call(w.rid, w.fam, GY, "deactivate_rules",
                                          request.rule_ids, <<>>, <<>>, <<>>))]

\* Mutant: the origin is not tested, every request going to the enforcer.
DeactivateFamilyAlwaysGx(w, request, ip) ==
    _deactivate_flows_gx(w, request, ip)

\* if request.request_origin.type == RequestOriginType.GX: ... else: ...
DeactivateFamily(w, request, ip) ==
    IF request.origin = "GX" THEN _deactivate_flows_gx(w, request, ip)
    ELSE _deactivate_flows_gy(w, request, ip)

---------------------------------------------------------------------------
(* Threads, futures and the loop *)

Response(code, body) == [code |-> code, body |-> body]

NoResponse == Response("", <<>>)

Thread(pc, rid, req, resp, idx) ==
    [pc |-> pc, rid |-> rid, req |-> req, resp |-> resp, idx |-> idx]

IdleThread == Thread("idle", 0, NoRequest, NoResponse, 0)

\* fut = Future()
NewFuture == [done |-> FALSE, value |-> <<>>]

\* Mutant: the callback ends without setting its future.
ResultNeverSet(f, value) == f

\* fut.set_result(value)
set_result(f, value) == [done |-> TRUE, value |-> value]

\* A callback handed to call_soon_threadsafe, with its arguments.
Work(kind, rid, req) ==
    [kind |-> kind, rid |-> rid, req |-> req, pc |-> "ipv4",
     ret |-> ActivateFlowsResult(<<>>, <<>>)]

NoWork == Work("none", 0, NoRequest)

\* A thread may take a new rpc when it is not inside one.
CanCall(t) == th[t].pc \in {"idle", "returned"} /\ nextId \in DOMAIN fut

\* Mutant: the handler does not wait for the future.
FutureNotAwaited(f) == TRUE

\* fut.result() blocks until the callback has called fut.set_result.
FutureReady(f) == f.done

\* Mutant: the callback gives the loop back between two steps (as a coroutine
\* awaiting would) and is resumed behind the callbacks already posted.
Yield(q, u) == [queue |-> Append(q, u), running |-> Work("none", 0, NoRequest)]

\* A callback is a plain function: the loop runs it to its end before it takes
\* the next one from its queue.  The loop's state after a step that is not the
\* callback's last.
Continue(q, u) == [queue |-> q, running |-> u]

\* context.set_code(grpc.StatusCode.UNAVAILABLE); return None
Unavailable(t, r) ==
    /\ th' = [th EXCEPT ![t] = Thread("returned", nextId, r,
                                      Response("UNAVAILABLE", <<>>), 0)]
    /\ nextId' = nextId + 1
    /\ arrived' = Append(arrived, r)
    /\ UNCHANGED <<enabled, setup_type, queue, running, fut, version, epoch, lastResult,
                   prefix_store, tunnel_store, metrics, outcome, log>>

ActivateFlows(t, r) ==
    /\ CanCall(t)
    /\ r.kind = "activate"
    /\ IF ENFORCEMENT \notin enabled
       THEN Unavailable(t, r)
       ELSE /\ queue' = Append(queue, Work("activate", nextId, r))
            /\ th' = [th EXCEPT ![t] = Thread("wait", nextId, r, NoResponse, 0)]
            /\ nextId' = nextId + 1
            /\ arrived' = Append(arrived, r)
            /\ UNCHANGED <<enabled, setup_type, running, fut, version, epoch, lastResult,
                           prefix_store, tunnel_store, metrics, outcome, log>>

\* return fut.result()
FutResult(t) ==
    /\ th[t].pc = "wait"
    /\ FutureReady(fut[th[t].rid])
    /\ th' = [th EXCEPT ![t].pc = "returned",
                        ![t].resp = Response("OK", fut[th[t].rid].value)]
    /\ UNCHANGED <<enabled, setup_type, arrived, queue, running, fut, nextId, version, epoch,
                   lastResult, prefix_store, tunnel_store, metrics, outcome, log>>

DeactivateFlows(t, r) ==
    /\ CanCall(t)
    /\ r.kind = "deactivate"
    /\ IF ENFORCEMENT \notin enabled
       THEN Unavailable(t, r)
       ELSE /\ queue' = Append(queue, Work("deactivate", nextId, r))
            /\ th' = [th EXCEPT ![t] = Thread("ack", nextId, r, NoResponse, 0)]
            /\ nextId' = nextId + 1
            /\ arrived' = Append(arrived, r)
            /\ UNCHANGED <<enabled, setup_type, running, fut, version, epoch, lastResult,
                           prefix_store, tunnel_store, metrics, outcome, log>>

\* return DeactivateFlowsResult(), return FlowResponse(): the handler has
\* posted what it posts and returns without waiting for the loop.
ReturnResponse(t) ==
    /\ th[t].pc = "ack"
    /\ th' = [th EXCEPT ![t].pc = "returned", ![t].resp = Response("OK", <<>>)]
    /\ UNCHANGED <<enabled, setup_type, arrived, queue, running, fut, nextId, version, epoch,
                   lastResult, prefix_store, tunnel_store, metrics, outcome, log>>

\* Mutant: the loop takes the callback posted last.
LoopRunsLastPosted ==
    /\ running.kind = "none"
    /\ queue # <<>>
    /\ running' = queue[Len(queue)]
    /\ queue' = SubSeq(queue, 1, Len(queue) - 1)
    /\ UNCHANGED <<enabled, setup_type, arrived, th, fut, nextId, version, epoch, lastResult,
                   prefix_store, tunnel_store, metrics, outcome, log>>

\* The loop takes the next callback, in the order they were posted, when the
\* one before it has returned.
LoopRun ==
    /\ running.kind = "none"
    /\ queue # <<>>
    /\ running' = Head(queue)
    /\ queue' = Tail(queue)
    /\ UNCHANGED <<enabled, setup_type, arrived, th, fut, nextId, version, epoch, lastResult,
                   prefix_store, tunnel_store, metrics, outcome, log>>

\* Mutant: the family's results replace what ret holds.
Replaced(ret, res) == res

\* ret.static_rule_results.extend(...); ret.dynamic_rule_results.extend(...)
Extended(ret, res) ==
    ActivateFlowsResult(ret.static_rule_results \o res.static_rule_results,
                        ret.dynamic_rule_results \o res.dynamic_rule_results)

Recorded(key, res) ==
    [k \in DOMAIN outcome \cup {key} |-> IF k = key THEN res ELSE outcome[k]]

\* _activate_flows, lines 198-206
ActivateIpv4 ==
    /\ running.kind = "activate"
    /\ running.pc = "ipv4"
    /\ LET request == running.req
           next == [running EXCEPT !.pc = "ipv6"]
       IN  IF RunsIpv4(request)
           THEN \E o \in Oracles(request) :
                    LET ipv4 == convert_ipv4_str_to_ip_proto(request.ip_addr)
                        r == InstallFlows(World(running.rid, "ipv4", version, metrics, log),
                                          request, ipv4, o)
                        c == Continue(queue, [next EXCEPT !.ret = Extended(@, r.res)])
                    IN  /\ version' = r.w.version
                        /\ metrics' = r.w.metrics
                        /\ log' = r.w.log
                        /\ outcome' = Recorded(<<running.rid, "ipv4">>, r.res)
                        /\ queue' = c.queue
                        /\ running' = c.running
           ELSE /\ queue' = Continue(queue, next).queue
                /\ running' = Continue(queue, next).running
                /\ UNCHANGED <<version, metrics, log, outcome>>
    /\ UNCHANGED <<enabled, setup_type, arrived, th, fut, nextId, epoch, lastResult,
                   prefix_store, tunnel_store>>

\* _activate_flows, lines 207-215
ActivateIpv6 ==
    /\ running.kind = "activate"
    /\ running.pc = "ipv6"
    /\ LET request == running.req
           next == [running EXCEPT !.pc = "tunnel"]
       IN  IF RunsIpv6(request)
           THEN \E o \in Oracles(request) :
                    LET ipv6 == convert_ipv6_bytes_to_ip_proto(request.ipv6_addr)
                        r == InstallFlows(World(running.rid, "ipv6", version, metrics, log),
                                          request, ipv6, o)
                        c == Continue(queue, [next EXCEPT !.ret = Extended(@, r.res)])
                    IN  /\ prefix_store' =
                               _update_ipv6_prefix_store(prefix_store, request.ipv6_addr)
                        /\ version' = r.w.version
                        /\ metrics' = r.w.metrics
                        /\ log' = r.w.log
                        /\ outcome' = Recorded(<<running.rid, "ipv6">>, r.res)
                        /\ queue' = c.queue
                        /\ running' = c.running
           ELSE /\ queue' = Continue(queue, next).queue
                /\ running' = Continue(queue, next).running
                /\ UNCHANGED <<version, metrics, log, outcome, prefix_store>>
    /\ UNCHANGED <<enabled, setup_type, arrived, th, fut, nextId, epoch, lastResult, tunnel_store>>

\* _activate_flows, lines 216-220
ActivateDone ==
    /\ running.kind = "activate"
    /\ running.pc = "tunnel"
    /\ tunnel_store' =
           IF HasTunnels(running.req)
           THEN _update_tunnel_map_store(tunnel_store, running.req.uplink_tunnel,
                                         running.req.downlink_tunnel)
           ELSE tunnel_store
    /\ fut' = [fut EXCEPT ![running.rid] = set_result(@, running.ret)]
    /\ running' = NoWork
    /\ UNCHANGED <<enabled, setup_type, arrived, th, queue, nextId, version, epoch, lastResult,
                   prefix_store, metrics, outcome, log>>

\* _deactivate_flows, lines 357-362
DeactivateIpv4 ==
    /\ running.kind = "deactivate"
    /\ running.pc = "ipv4"
    /\ LET request == running.req
           c == Continue(queue, [running EXCEPT !.pc = "ipv6"])
           w == DeactivateFamily(World(running.rid, "ipv4", version, metrics, log),
                                 request, convert_ipv4_str_to_ip_proto(request.ip_addr))
       IN  /\ queue' = c.queue
           /\ running' = c.running
           /\ IF RunsIpv4(request)
              THEN version' = w.version /\ log' = w.log
              ELSE UNCHANGED <<version, log>>
    /\ UNCHANGED <<enabled, setup_type, arrived, th, fut, nextId, epoch, lastResult,
                   prefix_store, tunnel_store, metrics, outcome>>

\* _deactivate_flows, lines 363-369
DeactivateIpv6 ==
    /\ running.kind = "deactivate"
    /\ running.pc = "ipv6"
    /\ LET request == running.req
           w == DeactivateFamily(World(running.rid, "ipv6", version, metrics, log),
                                 request, convert_ipv6_bytes_to_ip_proto(request.ipv6_addr))
       IN  IF RunsIpv6(request)
           THEN /\ prefix_store' =
                       _update_ipv6_prefix_store(prefix_store, request.ipv6_addr)
                /\ version' = w.version
                /\ log' = w.log
           ELSE UNCHANGED <<version, log, prefix_store>>
    /\ running' = NoWork
    /\ UNCHANGED <<enabled, setup_type, arrived, th, queue, fut, nextId, epoch, lastResult,
                   tunnel_store, metrics, outcome>>

---------------------------------------------------------------------------
(* Setup: the epoch checks on the request thread, the restart on the loop *)

NoEpoch == -1

\* for controller in [self._gy_app, self._enforcer_app, self._enforcement_stats]:
SetupControllers == <<GY, ENFORCEMENT, ENFORCEMENT_STATS>>

\* The result object a controller's handle_restart returns and keeps.
SetupFlowsResult(ep, result) == [epoch |-> ep, result |-> result]

\* controller.check_setup_request_epoch(epoch): fenced with the last known
\* result unless the epoch is newer than the last accepted one, which it
\* then replaces.
check_setup_request_epoch(controller, ep) ==
    IF ep <= epoch[controller]
    THEN [fenced |-> TRUE, ret |-> lastResult[controller], epoch |-> epoch]
    ELSE [fenced |-> FALSE, ret |-> lastResult[controller],
          epoch |-> [epoch EXCEPT ![controller] = ep]]

\* SetupFlowsResult(result=ret): a new message whose field result holds what
\* the epoch check returned.
FencedResult(ret) == [result |-> ret]

\* Mutant: the result of the epoch check is ignored.
SetupNeverReturnsEarly(check) == FALSE

\* if ret is not None: return SetupFlowsResult(result=ret)
SetupReturnsEarly(check) == check.fenced

SetupPolicyFlows(t, r) ==
    /\ CanCall(t)
    /\ r.kind = "setup"
    /\ IF ENFORCEMENT \notin enabled
       THEN Unavailable(t, r)
       ELSE /\ th' = [th EXCEPT ![t] = Thread("epoch", nextId, r, NoResponse, 1)]
            /\ nextId' = nextId + 1
            /\ arrived' = Append(arrived, r)
            /\ UNCHANGED <<enabled, setup_type, queue, running, fut, version, epoch,
                           lastResult, prefix_store, tunnel_store, metrics, outcome, log>>

\* One turn of the loop of SetupPolicyFlows, lines 129-133
SetupCheckEpoch(t) ==
    /\ th[t].pc = "epoch"
    /\ LET check == check_setup_request_epoch(SetupControllers[th[t].idx], th[t].req.epoch)
       IN  /\ epoch' = check.epoch
           /\ th' = IF SetupReturnsEarly(check)
                    THEN [th EXCEPT ![t].pc = "returned",
                                    ![t].resp = Response("FENCED", FencedResult(check.ret))]
                    ELSE IF th[t].idx < Len(SetupControllers)
                         THEN [th EXCEPT ![t].idx = @ + 1]
                         ELSE [th EXCEPT ![t].pc = "post"]
    /\ UNCHANGED <<enabled, setup_type, arrived, queue, running, fut, nextId, version, lastResult,
                   prefix_store, tunnel_store, metrics, outcome, log>>

\* The callback a setup rpc posts: request and future, or the future alone.
SetupCallback(rid, request) ==
    IF request.kind = "setup"
    THEN [Work("setup", rid, request) EXCEPT !.pc = "enforcement"]
    ELSE IF request.kind = "setup_default"
    THEN Work("setup_default", rid, NoRequest)
    ELSE Work(request.kind, rid, request)

\* fut = Future(); self._loop.call_soon_threadsafe(self._setup_flows, request, fut)
\* (and the same two lines of the other setup rpcs)
SetupPost(t) ==
    /\ th[t].pc = "post"
    /\ queue' = Append(queue, SetupCallback(th[t].rid, th[t].req))
    /\ th' = [th EXCEPT ![t].pc = "wait"]
    /\ UNCHANGED <<enabled, setup_type, arrived, running, fut, nextId, version, epoch, lastResult,
                   prefix_store, tunnel_store, metrics, outcome, log>>

\* [req for req in request.requests if req.request_origin.type == origin]
RequestsOfOrigin(request, origin) ==
    SelectSeq(request.requests, LAMBDA req : req.origin = origin)

\* controller.handle_restart(requests), whose result the controller keeps
handle_restart(st, rid, controller, reqs, result) ==
    LET res == SetupFlowsResult(epoch[controller], result)
    IN  [log |-> Append(st.log, Call(rid, "", controller, "handle_restart",
                                     <<>>, <<>>, reqs, res)),
         lastResult |-> [st.lastResult EXCEPT ![controller] = res]]

\* enforcement_res = self._enforcer_app.handle_restart(gx_reqs), line 146
SetupRestartEnforcement ==
    /\ running.kind = "setup"
    /\ running.pc = "enforcement"
    /\ \E result \in {"SUCCESS", "FAILURE"} :
           LET gx_reqs == RequestsOfOrigin(running.req, "GX")
               s == handle_restart([log |-> log, lastResult |-> lastResult],
                                   running.rid, ENFORCEMENT, gx_reqs, result)
               c == Continue(queue, [running EXCEPT !.pc = "gy",
                                                    !.ret = s.lastResult[ENFORCEMENT]])
           IN  /\ log' = s.log
               /\ lastResult' = s.lastResult
               /\ queue' = c.queue
               /\ running' = c.running
    /\ UNCHANGED <<enabled, setup_type, arrived, th, fut, nextId, version, epoch,
                   prefix_store, tunnel_store, metrics, outcome>>

\* Mutant: the result of gy's restart is aggregated, its failure failing the
\* setup.
SetupRestartGyAggregated ==
    /\ running.kind = "setup"
    /\ running.pc = "gy"
    /\ \E result \in {"SUCCESS", "FAILURE"} :
           LET gy_reqs == RequestsOfOrigin(running.req, "GY")
               s == handle_restart([log |-> log, lastResult |-> lastResult],
                                   running.rid, GY, gy_reqs, result)
               c == Continue(queue, [running EXCEPT
                                        !.pc = "stats",
                                        !.ret = IF result = "FAILURE"
                                                THEN SetupFlowsResult(@.epoch, "FAILURE")
                                                ELSE @])
           IN  /\ log' = s.log
               /\ lastResult' = s.lastResult
               /\ queue' = c.queue
               /\ running' = c.running
    /\ UNCHANGED <<enabled, setup_type, arrived, th, fut, nextId, version, epoch,
                   prefix_store, tunnel_store, metrics, outcome>>

\* self._gy_app.handle_restart(gy_reqs), line 148: the result is dropped
SetupRestartGy ==
    /\ running.kind = "setup"
    /\ running.pc = "gy"
    /\ \E result \in {"SUCCESS", "FAILURE"} :
           LET gy_reqs == RequestsOfOrigin(running.req, "GY")
               s == handle_restart([log |-> log, lastResult |-> lastResult],
                                   running.rid, GY, gy_reqs, result)
               c == Continue(queue, [running EXCEPT !.pc = "stats"])
           IN  /\ log' = s.log
               /\ lastResult' = s.lastResult
               /\ queue' = c.queue
               /\ running' = c.running
    /\ UNCHANGED <<enabled, setup_type, arrived, th, fut, nextId, version, epoch,
                   prefix_store, tunnel_store, metrics, outcome>>

\* Mutant: the stats controller is given the GY sub-requests.
SetupRestartStatsWithGy ==
    /\ running.kind = "setup"
    /\ running.pc = "stats"
    /\ \E result \in {"SUCCESS", "FAILURE"} :
           LET gy_reqs == RequestsOfOrigin(running.req, "GY")
               s == handle_restart([log |-> log, lastResult |-> lastResult],
                                   running.rid, ENFORCEMENT_STATS, gy_reqs, result)
               c == Continue(queue, [running EXCEPT !.pc = "result"])
           IN  /\ log' = s.log
               /\ lastResult' = s.lastResult
               /\ queue' = c.queue
               /\ running' = c.running
    /\ UNCHANGED <<enabled, setup_type, arrived, th, fut, nextId, version, epoch,
                   prefix_store, tunnel_store, metrics, outcome>>

\* self._enforcement_stats.handle_restart(gx_reqs), line 149: the result is
\* dropped
SetupRestartStats ==
    /\ running.kind = "setup"
    /\ running.pc = "stats"
    /\ \E result \in {"SUCCESS", "FAILURE"} :
           LET gx_reqs == RequestsOfOrigin(running.req, "GX")
               s == handle_restart([log |-> log, lastResult |-> lastResult],
                                   running.rid, ENFORCEMENT_STATS, gx_reqs, result)
               c == Continue(queue, [running EXCEPT !.pc = "result"])
           IN  /\ log' = s.log
               /\ lastResult' = s.lastResult
               /\ queue' = c.queue
               /\ running' = c.running
    /\ UNCHANGED <<enabled, setup_type, arrived, th, fut, nextId, version, epoch,
                   prefix_store, tunnel_store, metrics, outcome>>

\* fut.set_result(enforcement_res), line 150
SetupSetResult ==
    /\ running.kind = "setup"
    /\ running.pc = "result"
    /\ fut' = [fut EXCEPT ![running.rid] = set_result(@, running.ret)]
    /\ running' = NoWork
    /\ UNCHANGED <<enabled, setup_type, arrived, th, queue, nextId, version, epoch, lastResult,
                   prefix_store, tunnel_store, metrics, outcome, log>>

\* _setup_flows, lines 142-150: the three restarts are three calls, and a
\* request thread may run an epoch check between two of them.
_setup_flows ==
    \/ SetupRestartEnforcement
    \/ SetupRestartGy
    \/ SetupRestartStats
    \/ SetupSetResult

---------------------------------------------------------------------------
(* UE MAC address association: AddUEMacFlow, DeleteUEMacFlow *)

UE_MAC == "ue_mac"
CHECK_QUOTA == "check_quota"
VLAN_LEARN == "vlan_learn"
TUNNEL_LEARN == "tunnel_learn"
IPFIX == "ipfix"
MacApps == {UE_MAC, CHECK_QUOTA, VLAN_LEARN, TUNNEL_LEARN, IPFIX}
INOUT == "inout"

\* The controllers a setup rpc checks the epoch of and restarts.
RestartControllers == Range(SetupControllers) \cup {INOUT, UE_MAC, CHECK_QUOTA}

\* 12 hex characters + 5 colons
MacLen == 17

\* A UEMacFlowRequest: mac_addr is the string, character by character.
MacRequest(kind, sid, mac_addr) == [kind |-> kind, sid |-> sid, mac_addr |-> mac_addr]

\* A bound method of a controller handed to call_soon_threadsafe with the
\* tuple of its arguments.
PostedCall(rid, ctrl, op, args) ==
    Work("call", rid, [kind |-> "call", ctrl |-> ctrl, op |-> op, args |-> args])

\* Mutant: the length of the address is not looked at.
MacAddrNeverInvalid(request) == FALSE

\* if len(request.mac_addr) != 17:
InvalidMacAddr(request) == Len(request.mac_addr) # MacLen

\* context.set_code(grpc.StatusCode.INVALID_ARGUMENT); return None
InvalidArgument(t, r) ==
    /\ th' = [th EXCEPT ![t] = Thread("returned", nextId, r,
                                      Response("INVALID_ARGUMENT", <<>>), 0)]
    /\ nextId' = nextId + 1
    /\ arrived' = Append(arrived, r)
    /\ UNCHANGED <<enabled, setup_type, queue, running, fut, version, epoch, lastResult,
                   prefix_store, tunnel_store, metrics, outcome, log>>

AddUEMacFlow(t, r) ==
    /\ CanCall(t)
    /\ r.kind = "add_ue_mac"
    /\ IF UE_MAC \notin enabled
       THEN Unavailable(t, r)
       ELSE IF InvalidMacAddr(r)
       THEN InvalidArgument(t, r)
       ELSE /\ queue' = Append(queue, Work("add_ue_mac", nextId, r))
            /\ th' = [th EXCEPT ![t] = Thread("wait", nextId, r, NoResponse, 0)]
            /\ nextId' = nextId + 1
            /\ arrived' = Append(arrived, r)
            /\ UNCHANGED <<enabled, setup_type, running, fut, version, epoch, lastResult,
                           prefix_store, tunnel_store, metrics, outcome, log>>

\* res = self._ue_mac_app.add_ue_mac_flow(sid, mac_addr); fut.set_result(res)
_add_ue_mac_flow ==
    /\ running.kind = "add_ue_mac"
    /\ \E res \in {"SUCCESS", "FAILURE"} :
           /\ log' = Append(log, Call(running.rid, "", UE_MAC, "add_ue_mac_flow", <<>>, <<>>,
                                      <<running.req.sid, running.req.mac_addr>>, res))
           /\ fut' = [fut EXCEPT ![running.rid] = set_result(@, res)]
    /\ running' = NoWork
    /\ UNCHANGED <<enabled, setup_type, arrived, th, queue, nextId, version, epoch,
                   lastResult, prefix_store, tunnel_store, metrics, outcome>>

\* The callbacks DeleteUEMacFlow posts, in order: one per enabled app.
DeletePosts(rid, request) ==
    <<PostedCall(rid, UE_MAC, "delete_ue_mac_flow", <<request.sid, request.mac_addr>>)>>
        \o (IF CHECK_QUOTA \in enabled
            THEN <<PostedCall(rid, CHECK_QUOTA, "remove_subscriber_flow", <<request.sid>>)>>
            ELSE <<>>)
        \o (IF VLAN_LEARN \in enabled
            THEN <<PostedCall(rid, VLAN_LEARN, "remove_subscriber_flow", <<request.sid>>)>>
            ELSE <<>>)
        \o (IF TUNNEL_LEARN \in enabled
            THEN <<PostedCall(rid, TUNNEL_LEARN, "remove_subscriber_flow",
                              <<request.mac_addr>>)>>
            ELSE <<>>)
        \o (IF IPFIX \in enabled
            THEN <<PostedCall(rid, IPFIX, "delete_ue_sample_flow", <<request.sid>>)>>
            ELSE <<>>)

\* DeleteUEMacFlow, lines 550-561: the two checks
DeleteUEMacFlow(t, r) ==
    /\ CanCall(t)
    /\ r.kind = "delete_ue_mac"
    /\ IF UE_MAC \notin enabled
       THEN Unavailable(t, r)
       ELSE IF InvalidMacAddr(r)
       THEN InvalidArgument(t, r)
       ELSE /\ th' = [th EXCEPT ![t] = Thread("posting", nextId, r, NoResponse, 1)]
            /\ nextId' = nextId + 1
            /\ arrived' = Append(arrived, r)
            /\ UNCHANGED <<enabled, setup_type, queue, running, fut, version, epoch,
                           lastResult, prefix_store, tunnel_store, metrics, outcome, log>>

\* One call_soon_threadsafe of DeleteUEMacFlow, lines 563-582: each is a call
\* of its own, and the loop and the other threads run between two of them.
DeletePost(t) ==
    /\ th[t].pc = "posting"
    /\ LET posts == DeletePosts(th[t].rid, th[t].req)
       IN  /\ queue' = Append(queue, posts[th[t].idx])
           /\ th' = IF th[t].idx < Len(posts)
                    THEN [th EXCEPT ![t].idx = @ + 1]
                    ELSE [th EXCEPT ![t].pc = "ack"]
    /\ UNCHANGED <<enabled, setup_type, arrived, running, fut, nextId, version, epoch,
                   lastResult, prefix_store, tunnel_store, metrics, outcome, log>>

\* The loop runs a controller method that was posted as it is.
RunPostedCall ==
    /\ running.kind = "call"
    /\ log' = Append(log, Call(running.rid, "", running.req.ctrl, running.req.op,
                               <<>>, <<>>, running.req.args, <<>>))
    /\ running' = NoWork
    /\ UNCHANGED <<enabled, setup_type, arrived, th, queue, fut, nextId, version, epoch,
                   lastResult, prefix_store, tunnel_store, metrics, outcome>>

---------------------------------------------------------------------------
(* The setup rpcs of one controller: SetupDefaultControllers,              *)
(* SetupUEMacFlows, SetupQuotaFlows                                        *)

\* The thread after the epoch check of a setup rpc with one controller:
\* fenced with SetupFlowsResult(result=ret), or about to post its callback.
AfterEpochCheck(rid, r, check) ==
    IF SetupReturnsEarly(check)
    THEN Thread("returned", rid, r, Response("FENCED", FencedResult(check.ret)), 0)
    ELSE Thread("post", rid, r, NoResponse, 0)

\* SetupDefaultControllers, lines 101-104: no capability is looked at
SetupDefaultControllers(t, r) ==
    /\ CanCall(t)
    /\ r.kind = "setup_default"
    /\ LET check == check_setup_request_epoch(INOUT, r.epoch)
       IN  /\ epoch' = check.epoch
           /\ th' = [th EXCEPT ![t] = AfterEpochCheck(nextId, r, check)]
    /\ nextId' = nextId + 1
    /\ arrived' = Append(arrived, r)
    /\ UNCHANGED <<enabled, setup_type, queue, running, fut, version, lastResult,
                   prefix_store, tunnel_store, metrics, outcome, log>>

\* The argument of self._inout_app.handle_restart(None)
None == "None"

\* _setup_default_controllers, lines 111-112
_setup_default_controllers ==
    /\ running.kind = "setup_default"
    /\ \E result \in {"SUCCESS", "FAILURE"} :
           LET s == handle_restart([log |-> log, lastResult |-> lastResult],
                                   running.rid, INOUT, None, result)
           IN  /\ log' = s.log
               /\ lastResult' = s.lastResult
               /\ fut' = [fut EXCEPT ![running.rid] = set_result(@, s.lastResult[INOUT])]
    /\ running' = NoWork
    /\ UNCHANGED <<enabled, setup_type, arrived, th, queue, nextId, version, epoch,
                   prefix_store, tunnel_store, metrics, outcome>>

\* A SetupUEMacRequest or a SetupQuotaRequest: an epoch and a list of
\* sub-requests.
RestartRequest(kind, ep, reqs) == [kind |-> kind, epoch |-> ep, requests |-> reqs]

\* A UEMacFlowRequest of a snapshot, with the fields the servicer reads.
UEMacFlowRequest(sid, msisdn, ap_mac_addr, ap_name, pdp_start_time) ==
    [sid |-> sid, msisdn |-> msisdn, ap_mac_addr |-> ap_mac_addr, ap_name |-> ap_name,
     pdp_start_time |-> pdp_start_time]

\* SetupUEMacFlows, lines 490-498
SetupUEMacFlows(t, r) ==
    /\ CanCall(t)
    /\ r.kind = "setup_ue_mac"
    /\ IF UE_MAC \notin enabled
       THEN Unavailable(t, r)
       ELSE /\ LET check == check_setup_request_epoch(UE_MAC, r.epoch)
               IN  /\ epoch' = check.epoch
                   /\ th' = [th EXCEPT ![t] = AfterEpochCheck(nextId, r, check)]
            /\ nextId' = nextId + 1
            /\ arrived' = Append(arrived, r)
            /\ UNCHANGED <<enabled, setup_type, queue, running, fut, version, lastResult,
                           prefix_store, tunnel_store, metrics, outcome, log>>

\* The calls of the loop of lines 511-515, one per sub-request.
SampleFlows(rid, requests) ==
    [i \in DOMAIN requests |->
        Call(rid, "", IPFIX, "add_ue_sample_flow", <<>>, <<>>,
             <<requests[i].sid, requests[i].msisdn, requests[i].ap_mac_addr,
               requests[i].ap_name, requests[i].pdp_start_time>>, <<>>)]

\* _setup_ue_mac, lines 508-517
_setup_ue_mac ==
    /\ running.kind = "setup_ue_mac"
    /\ \E result \in {"SUCCESS", "FAILURE"} :
           LET request == running.req
               s == handle_restart([log |-> log, lastResult |-> lastResult],
                                   running.rid, UE_MAC, request.requests, result)
           IN  /\ log' = IF IPFIX \in enabled
                         THEN s.log \o SampleFlows(running.rid, request.requests)
                         ELSE s.log
               /\ lastResult' = s.lastResult
               /\ fut' = [fut EXCEPT ![running.rid] = set_result(@, s.lastResult[UE_MAC])]
    /\ running' = NoWork
    /\ UNCHANGED <<enabled, setup_type, arrived, th, queue, nextId, version, epoch,
                   prefix_store, tunnel_store, metrics, outcome>>

\* SetupQuotaFlows, lines 595-604
SetupQuotaFlows(t, r) ==
    /\ CanCall(t)
    /\ r.kind = "setup_quota"
    /\ IF CHECK_QUOTA \notin enabled
       THEN Unavailable(t, r)
       ELSE /\ LET check == check_setup_request_epoch(CHECK_QUOTA, r.epoch)
               IN  /\ epoch' = check.epoch
                   /\ th' = [th EXCEPT ![t] = AfterEpochCheck(nextId, r, check)]
            /\ nextId' = nextId + 1
            /\ arrived' = Append(arrived, r)
            /\ UNCHANGED <<enabled, setup_type, queue, running, fut, version, lastResult,
                           prefix_store, tunnel_store, metrics, outcome, log>>

\* _setup_quota, lines 614-615
_setup_quota ==
    /\ running.kind = "setup_quota"
    /\ \E result \in {"SUCCESS", "FAILURE"} :
           LET s == handle_restart([log |-> log, lastResult |-> lastResult],
                                   running.rid, CHECK_QUOTA, running.req.requests, result)
           IN  /\ log' = s.log
               /\ lastResult' = s.lastResult
               /\ fut' = [fut EXCEPT ![running.rid] = set_result(@, s.lastResult[CHECK_QUOTA])]
    /\ running' = NoWork
    /\ UNCHANGED <<enabled, setup_type, arrived, th, queue, nextId, version, epoch,
                   prefix_store, tunnel_store, metrics, outcome>>

---------------------------------------------------------------------------
(* The rpcs that post without waiting, or post nothing: UpdateIPFIXFlow,   *)
(* CreateFlow, RemoveFlow, UpdateFlowStats, UpdateSubscriberQuotaState,    *)
(* GetAllTableAssignments                                                  *)

DPI == "dpi"

\* The apps the rpcs outside the policy pipeline ask service_manager for.
AuxApps == MacApps \cup {DPI}

\* The handler posts the callbacks `posts` (one at most) and is left with
\* resp = FlowResponse(); return resp
Acknowledge(t, r, posts) ==
    /\ queue' = queue \o posts
    /\ th' = [th EXCEPT ![t] = Thread("ack", nextId, r, NoResponse, 0)]
    /\ nextId' = nextId + 1
    /\ arrived' = Append(arrived, r)
    /\ UNCHANGED <<enabled, setup_type, running, fut, version, epoch, lastResult,
                   prefix_store, tunnel_store, metrics, outcome, log>>

\* UpdateIPFIXFlow, lines 422-431: answered the same with the app disabled
UpdateIPFIXFlow(t, r) ==
    /\ CanCall(t)
    /\ r.kind = "update_ipfix"
    /\ Acknowledge(t, r,
                   IF IPFIX \in enabled
                   THEN <<PostedCall(nextId, IPFIX, "add_ue_sample_flow",
                                     <<r.sid, r.msisdn, r.ap_mac_addr, r.ap_name,
                                       r.pdp_start_time>>)>>
                   ELSE <<>>)

\* CreateFlow, lines 441-451
CreateFlow(t, r) ==
    /\ CanCall(t)
    /\ r.kind = "create_flow"
    /\ IF DPI \notin enabled
       THEN Unavailable(t, r)
       ELSE Acknowledge(t, r, <<PostedCall(nextId, DPI, "add_classify_flow",
                                           <<r.match, r.state, r.app_name,
                                             r.service_type>>)>>)

\* RemoveFlow, lines 457-466
RemoveFlow(t, r) ==
    /\ CanCall(t)
    /\ r.kind = "remove_flow"
    /\ IF DPI \notin enabled
       THEN Unavailable(t, r)
       ELSE Acknowledge(t, r, <<PostedCall(nextId, DPI, "remove_classify_flow",
                                           <<r.match>>)>>)

\* UpdateFlowStats, lines 472-479: nothing is posted
UpdateFlowStats(t, r) ==
    /\ CanCall(t)
    /\ r.kind = "update_flow_stats"
    /\ IF DPI \notin enabled
       THEN Unavailable(t, r)
       ELSE Acknowledge(t, r, <<>>)

\* UpdateSubscriberQuotaState, lines 621-631
UpdateSubscriberQuotaState(t, r) ==
    /\ CanCall(t)
    /\ r.kind = "update_quota_state"
    /\ IF CHECK_QUOTA \notin enabled
       THEN Unavailable(t, r)
       ELSE Acknowledge(t, r, <<PostedCall(nextId, CHECK_QUOTA,
                                           "update_subscriber_quota_state",
                                           <<r.updates>>)>>)

\* service_manager.get_all_table_assignments(): the tables of the enabled
\* apps, ordered by main table number; an app's main table is its rank.
get_all_table_assignments ==
    LET order == <<UE_MAC, CHECK_QUOTA, VLAN_LEARN, TUNNEL_LEARN, IPFIX, DPI,
                   ENFORCEMENT, ENFORCEMENT_STATS>>
        rank(app) == CHOOSE i \in DOMAIN order : order[i] = app
        apps == SelectSeq(order, LAMBDA app : app \in enabled)
    IN  [i \in DOMAIN apps |->
            <<apps[i], [main_table |-> rank(apps[i]), scratch_tables |-> <<>>]>>]

TableAssignment(app_name, main_table, scratch_tables) ==
    [app_name |-> app_name, main_table |-> main_table, scratch_tables |-> scratch_tables]

\* AllTableAssignments(table_assignments=[TableAssignment(...) for app_name,
\* tables in table_assignments.items()])
AllTableAssignments(table_assignments) ==
    [table_assignments |->
        [i \in DOMAIN table_assignments |->
            TableAssignment(table_assignments[i][1], table_assignments[i][2].main_table,
                            table_assignments[i][2].scratch_tables)]]

\* GetAllTableAssignments, lines 642-647: no app is asked for, nothing posted
GetAllTableAssignments(t, r) ==
    /\ CanCall(t)
    /\ r.kind = "get_all_table_assignments"
    /\ th' = [th EXCEPT ![t] = Thread("returned", nextId, r,
                                      Response("OK",
                                               AllTableAssignments(get_all_table_assignments)),
                                      0)]
    /\ nextId' = nextId + 1
    /\ arrived' = Append(arrived, r)
    /\ UNCHANGED <<enabled, setup_type, queue, running, fut, version, epoch, lastResult,
                   prefix_store, tunnel_store, metrics, outcome, log>>

---------------------------------------------------------------------------
(* Usage query: GetPolicyUsage *)

\* The table of usage records the stats controller holds.
RuleRecordTable == [records |-> <<>>]

\* GetPolicyUsage, lines 403-412: the controller's method is posted with the
\* future as its argument.
GetPolicyUsage(t, r) ==
    /\ CanCall(t)
    /\ r.kind = "get_policy_usage"
    /\ IF ENFORCEMENT_STATS \notin enabled
       THEN Unavailable(t, r)
       ELSE /\ queue' = Append(queue, Work("get_policy_usage", nextId, NoRequest))
            /\ th' = [th EXCEPT ![t] = Thread("wait", nextId, r, NoResponse, 0)]
            /\ nextId' = nextId + 1
            /\ arrived' = Append(arrived, r)
            /\ UNCHANGED <<enabled, setup_type, running, fut, version, epoch, lastResult,
                           prefix_store, tunnel_store, metrics, outcome, log>>

\* enforcement_stats.get_policy_usage(fut), run by the loop: the controller
\* completes the future with its current usage snapshot.
get_policy_usage ==
    /\ running.kind = "get_policy_usage"
    /\ log' = Append(log, Call(running.rid, "", ENFORCEMENT_STATS, "get_policy_usage",
                               <<>>, <<>>, <<>>, RuleRecordTable))
    /\ fut' = [fut EXCEPT ![running.rid] = set_result(@, RuleRecordTable)]
    /\ running' = NoWork
    /\ UNCHANGED <<enabled, setup_type, arrived, th, queue, nextId, version, epoch,
                   lastResult, prefix_store, tunnel_store, metrics, outcome>>

---------------------------------------------------------------------------
(* Requests *)

DynamicRules(n) == {[i \in DOMAIN ids |-> PolicyRule(ids[i])] : ids \in SeqsUpTo(RuleIds, n)}

\* The <<rule_ids, dynamic_rules>> of a request: no id twice in either list.
RuleLists(n) ==
    {l \in SeqsUpTo(RuleIds, n) \X DynamicRules(n) : Len(l[1]) + Len(l[2]) <= n}

\* Activation requests with at most n rules and the tunnel ids of `tunnels`.
ActivateRequests(n, tunnels) ==
    {Request("activate", sid, ip, ip6, origin, rules[1], rules[2], tun[1], tun[2],
             FALSE, 0, <<>>) :
        sid \in Sids, ip \in Ipv4Addrs, ip6 \in Ipv6Addrs, origin \in Origins,
        rules \in RuleLists(n), tun \in tunnels}

DeactivateRequests ==
    {Request("deactivate", sid, ip, ip6, origin, rule_ids, <<>>, 0, 0, rm, 0, <<>>) :
        sid \in Sids, ip \in Ipv4Addrs, ip6 \in Ipv6Addrs, origin \in Origins,
        rule_ids \in SeqsUpTo(RuleIds, MaxRules), rm \in BOOLEAN}

\* The activation-equivalent sub-requests of a snapshot, by origin.
Snapshots(n) ==
    UNION {[1..k -> {[sid |-> sid, origin |-> origin] : sid \in Sids, origin \in Origins}] :
              k \in 0..n}

SetupRequests ==
    {Request("setup", "", "", "", "GX", <<>>, <<>>, 0, 0, FALSE, ep, reqs) :
        ep \in 0..MaxEpoch, reqs \in Snapshots(MaxSnapshot)}

UsageRequests ==
    {Request("get_policy_usage", "", "", "", "GX", <<>>, <<>>, 0, 0, FALSE, 0, <<>>)}

DefaultSetupRequests ==
    {Request("setup_default", "", "", "", "GX", <<>>, <<>>, 0, 0, FALSE, ep, <<>>) :
        ep \in 0..MaxEpoch}

\* The attached UEs of a SetupUEMacRequest.
UEMacSnapshots(n) ==
    UNION {[1..k -> {UEMacFlowRequest(sid, "msisdn", "ap_mac", "ap_name", 0) : sid \in Sids}] :
              k \in 0..n}

UEMacSetupRequests ==
    {RestartRequest("setup_ue_mac", ep, reqs) :
        ep \in 0..MaxEpoch, reqs \in UEMacSnapshots(MaxSnapshot)}

\* The quota updates of a SetupQuotaRequest.
QuotaSnapshots(n) == UNION {[1..k -> {[sid |-> sid] : sid \in Sids}] : k \in 0..n}

QuotaSetupRequests ==
    {RestartRequest("setup_quota", ep, reqs) :
        ep \in 0..MaxEpoch, reqs \in QuotaSnapshots(MaxSnapshot)}

\* The requests of the rpcs that post without waiting: one of each.
AuxRequests ==
    {[kind |-> "update_ipfix", sid |-> sid, msisdn |-> "msisdn", ap_mac_addr |-> "ap_mac",
      ap_name |-> "ap_name", pdp_start_time |-> 0] : sid \in Sids}
        \cup {[kind |-> kind, match |-> "match", state |-> "state", app_name |-> "app",
               service_type |-> "service"] :
                 kind \in {"create_flow", "remove_flow", "update_flow_stats"}}
        \cup {[kind |-> "update_quota_state", updates |-> updates] :
                 updates \in QuotaSnapshots(MaxSnapshot)}
        \cup {[kind |-> "get_all_table_assignments"]}

---------------------------------------------------------------------------
(* Specifications *)

InitState(threads, configs, types, n) ==
    /\ enabled \in configs
    /\ setup_type \in types
    /\ th = [t \in threads |-> IdleThread]
    /\ queue = <<>>
    /\ running = NoWork
    /\ fut = [i \in 1..n |-> NewFuture]
    /\ nextId = 1
    /\ arrived = <<>>
    /\ version = [k \in VersionKeys |-> 0]
    /\ epoch = [c \in RestartControllers |-> NoEpoch]
    /\ lastResult = [c \in RestartControllers |-> SetupFlowsResult(NoEpoch, "NONE")]
    /\ prefix_store = {}
    /\ tunnel_store = {}
    /\ metrics = [k \in MetricKeys |-> 0]
    /\ outcome = [k \in {} |-> 0]
    /\ log = <<>>

\* One rpc (an activation, a deactivation or a setup), over every shape of
\* request and every outcome the controllers can report.
Init == InitState({"t1"}, SUBSET Apps, SetupTypes, Len(<<"one rpc">>))

Loop ==
    \/ LoopRun
    \/ ActivateIpv4
    \/ ActivateIpv6
    \/ ActivateDone
    \/ DeactivateIpv4
    \/ DeactivateIpv6
    \/ _setup_flows
    \/ _setup_default_controllers
    \/ get_policy_usage

Next ==
    \/ \E t \in DOMAIN th, r \in ActivateRequests(MaxRules, {<<0, 0>>}) : ActivateFlows(t, r)
    \/ \E t \in DOMAIN th, r \in DeactivateRequests : DeactivateFlows(t, r)
    \/ \E t \in DOMAIN th, r \in SetupRequests : SetupPolicyFlows(t, r)
    \/ \E t \in DOMAIN th, r \in DefaultSetupRequests : SetupDefaultControllers(t, r)
    \/ \E t \in DOMAIN th, r \in UsageRequests : GetPolicyUsage(t, r)
    \/ \E t \in DOMAIN th : SetupCheckEpoch(t)
    \/ \E t \in DOMAIN th : SetupPost(t)
    \/ \E t \in DOMAIN th : FutResult(t)
    \/ \E t \in DOMAIN th : ReturnResponse(t)
    \/ Loop

Spec == Init /\ [][Next]_vars

\* Dual-stack activations and deactivations of one rule, from two threads.
ConcurrentActivations ==
    {r \in ActivateRequests(1, {<<0, 0>>}) :
        /\ r.ip_addr # "" /\ r.ipv6_addr # "" /\ r.origin \in {"GX", "GY"}
        /\ Range(r.rule_ids) \subseteq {"ruleA"}
        /\ \A i \in DOMAIN r.dynamic_rules : r.dynamic_rules[i].id = "ruleA"
        /\ Len(r.rule_ids) + Len(r.dynamic_rules) = 1}

ConcurrentDeactivations ==
    {r \in DeactivateRequests :
        /\ r.ip_addr # "" /\ r.ipv6_addr # "" /\ r.origin \in {"GX", "GY"}
        /\ Range(r.rule_ids) \subseteq {"ruleA"} /\ Len(r.rule_ids) <= 1
        /\ ~r.remove_default_drop_flows}

InitConc == InitState({"t1", "t2"}, {{ENFORCEMENT}}, {"LTE"}, MaxReqs)

NextConc ==
    \/ \E t \in DOMAIN th, r \in ConcurrentActivations : ActivateFlows(t, r)
    \/ \E t \in DOMAIN th, r \in ConcurrentDeactivations : DeactivateFlows(t, r)
    \/ \E t \in DOMAIN th : FutResult(t)
    \/ \E t \in DOMAIN th : ReturnResponse(t)
    \/ LoopRun
    \/ ActivateIpv4
    \/ ActivateIpv6
    \/ ActivateDone
    \/ DeactivateIpv4
    \/ DeactivateIpv6

\* Up to MaxReqs activations and deactivations from two request threads, the
\* stats app disabled.
SpecConc == InitConc /\ [][NextConc]_vars

\* Setup requests with every epoch and one snapshot.
SequencedSetups ==
    {r \in SetupRequests : r.requests = <<[sid |-> "IMSI001", origin |-> "GX"]>>}

NextSetup ==
    \/ \E t \in DOMAIN th, r \in SequencedSetups : SetupPolicyFlows(t, r)
    \/ \E t \in DOMAIN th : SetupCheckEpoch(t)
    \/ \E t \in DOMAIN th : SetupPost(t)
    \/ \E t \in DOMAIN th : FutResult(t)
    \/ LoopRun
    \/ _setup_flows

InitSetupSeq == InitState({"t1"}, SUBSET Apps, {"LTE"}, MaxReqs + 1)

\* Setup rpcs one after the other, from one thread.
SpecSetupSeq == InitSetupSeq /\ [][NextSetup]_vars

InitSetup == InitState({"t1", "t2"}, {Apps}, {"LTE"}, MaxReqs)

\* Setup rpcs from two request threads.
SpecSetup == InitSetup /\ [][NextSetup]_vars

InitTunnel == InitState({"t1"}, {Apps}, {"LTE"}, Len(<<"one rpc">>))

\* Activations of static rules with every combination of tunnel ids.
TunnelActivations ==
    {r \in ActivateRequests(MaxRules, TunnelIds \X TunnelIds) :
        r.origin \in {"GX", "GY"} /\ r.dynamic_rules = <<>>}

NextTunnel ==
    \/ \E t \in DOMAIN th, r \in TunnelActivations : ActivateFlows(t, r)
    \/ \E t \in DOMAIN th : FutResult(t)
    \/ LoopRun
    \/ ActivateIpv4
    \/ ActivateIpv6
    \/ ActivateDone

\* One activation of static rules, with every combination of tunnel ids and
\* addresses, both apps enabled.
SpecTunnel == InitTunnel /\ [][NextTunnel]_vars

\* The loop keeps running what is posted to it and every call it makes
\* returns; a request thread that can go on does.
Fairness ==
    /\ WF_vars(Loop)
    /\ WF_vars(\E t \in DOMAIN th : FutResult(t))
    /\ WF_vars(\E t \in DOMAIN th : ReturnResponse(t))
    /\ WF_vars(\E t \in DOMAIN th : SetupCheckEpoch(t))
    /\ WF_vars(\E t \in DOMAIN th : SetupPost(t))

\* Activations of static rules, of every origin and address combination.
StaticActivations ==
    {r \in ActivateRequests(MaxRules, {<<0, 0>>}) : r.dynamic_rules = <<>>}

NextLive ==
    \/ \E t \in DOMAIN th, r \in StaticActivations : ActivateFlows(t, r)
    \/ \E t \in DOMAIN th, r \in DeactivateRequests : DeactivateFlows(t, r)
    \/ \E t \in DOMAIN th, r \in SetupRequests : SetupPolicyFlows(t, r)
    \/ \E t \in DOMAIN th, r \in DefaultSetupRequests : SetupDefaultControllers(t, r)
    \/ \E t \in DOMAIN th, r \in UsageRequests : GetPolicyUsage(t, r)
    \/ \E t \in DOMAIN th : SetupCheckEpoch(t)
    \/ \E t \in DOMAIN th : SetupPost(t)
    \/ \E t \in DOMAIN th : FutResult(t)
    \/ \E t \in DOMAIN th : ReturnResponse(t)
    \/ Loop

\* One rpc, with a loop that keeps draining its queue.
SpecLive == Init /\ [][NextLive]_vars /\ Fairness

\* A string of n characters shaped like a MAC address ("aa:aa:...").
MacAddr(n) == [i \in 1..n |-> IF i % 3 = 0 THEN ":" ELSE "a"]

MacRequests ==
    {MacRequest(kind, sid, MacAddr(n)) :
        kind \in {"add_ue_mac", "delete_ue_mac"}, sid \in Sids, n \in 0..MaxMacLen}

InitMac == InitState({"t1"}, SUBSET AuxApps, {"LTE"}, Len(<<"one rpc">>))

NextMac ==
    \/ \E t \in DOMAIN th, r \in MacRequests : AddUEMacFlow(t, r)
    \/ \E t \in DOMAIN th, r \in MacRequests : DeleteUEMacFlow(t, r)
    \/ \E t \in DOMAIN th, r \in UEMacSetupRequests : SetupUEMacFlows(t, r)
    \/ \E t \in DOMAIN th, r \in QuotaSetupRequests : SetupQuotaFlows(t, r)
    \/ \E t \in DOMAIN th, r \in AuxRequests : UpdateIPFIXFlow(t, r)
    \/ \E t \in DOMAIN th, r \in AuxRequests : CreateFlow(t, r)
    \/ \E t \in DOMAIN th, r \in AuxRequests : RemoveFlow(t, r)
    \/ \E t \in DOMAIN th, r \in AuxRequests : UpdateFlowStats(t, r)
    \/ \E t \in DOMAIN th, r \in AuxRequests : UpdateSubscriberQuotaState(t, r)
    \/ \E t \in DOMAIN th, r \in AuxRequests : GetAllTableAssignments(t, r)
    \/ \E t \in DOMAIN th : SetupPost(t)
    \/ \E t \in DOMAIN th : FutResult(t)
    \/ \E t \in DOMAIN th : DeletePost(t)
    \/ \E t \in DOMAIN th : ReturnResponse(t)
    \/ LoopRun
    \/ _add_ue_mac_flow
    \/ RunPostedCall
    \/ _setup_ue_mac
    \/ _setup_quota

\* One rpc outside the policy pipeline: a MAC association with an address of
\* every length up to MaxMacLen, a setup of the UE MAC or quota app, or one of
\* the rpcs that do not wait, with every set of enabled apps.
SpecMac == InitMac /\ [][NextMac]_vars

\* Associations with a well-formed address.
ValidMacRequests == {r \in MacRequests : ~InvalidMacAddr(r)}

InitMacConc == InitState({"t1", "t2"}, {MacApps, {UE_MAC, IPFIX}}, {"LTE"}, MaxReqs)

NextMacConc ==
    \/ \E t \in DOMAIN th, r \in ValidMacRequests : AddUEMacFlow(t, r)
    \/ \E t \in DOMAIN th, r \in ValidMacRequests : DeleteUEMacFlow(t, r)
    \/ \E t \in DOMAIN th : DeletePost(t)
    \/ \E t \in DOMAIN th : ReturnResponse(t)
    \/ \E t \in DOMAIN th : FutResult(t)
    \/ LoopRun
    \/ _add_ue_mac_flow
    \/ RunPostedCall

\* MAC associations from two request threads: the posts of two
\* DeleteUEMacFlow rpcs interleave.
SpecMacConc == InitMacConc /\ [][NextMacConc]_vars

InitRestart == InitState({"t1"}, SUBSET {UE_MAC, CHECK_QUOTA, IPFIX}, {"LTE"}, MaxReqs)

NextRestart ==
    \/ \E t \in DOMAIN th, r \in DefaultSetupRequests : SetupDefaultControllers(t, r)
    \/ \E t \in DOMAIN th, r \in UEMacSetupRequests : SetupUEMacFlows(t, r)
    \/ \E t \in DOMAIN th, r \in QuotaSetupRequests : SetupQuotaFlows(t, r)
    \/ \E t \in DOMAIN th : SetupPost(t)
    \/ \E t \in DOMAIN th : FutResult(t)
    \/ LoopRun
    \/ _setup_default_controllers
    \/ _setup_ue_mac
    \/ _setup_quota

\* Setup rpcs of one controller each, one after the other, from one thread.
SpecRestart == InitRestart /\ [][NextRestart]_vars

---------------------------------------------------------------------------
(* Reading the state *)

Families == {"ipv4", "ipv6"}

\* The address-family branches the callback runs for a request.
FamiliesRun(request) ==
    {f \in Families : IF f = "ipv4" THEN RunsIpv4(request) ELSE RunsIpv6(request)}

FamilyAddress(request, f) ==
    IF f = "ipv4" THEN convert_ipv4_str_to_ip_proto(request.ip_addr)
    ELSE convert_ipv6_bytes_to_ip_proto(request.ipv6_addr)

\* The callback of request rid has been posted and has not run to its end.
Pending(rid) ==
    running.rid = rid \/ \E i \in DOMAIN queue : queue[i].rid = rid

\* The thread's rpc was dispatched (posted to the loop) and its callback has
\* run to its end.
Completed(t) ==
    th[t].pc \in {"wait", "ack", "returned"} /\ th[t].resp.code # "UNAVAILABLE"
        /\ th[t].resp.code # "FENCED" /\ ~Pending(th[t].rid)

IsStatsActivate(e) == e.ctrl = ENFORCEMENT_STATS /\ e.op = "activate_rules"

IsDownstreamActivate(e) == e.ctrl \in {ENFORCEMENT, GY} /\ e.op = "activate_rules"

SameSubOperation(e, f) == e.rid = f.rid /\ e.fam = f.fam

IsWildcardBump(e) == e.op = "update_version" /\ e.static = <<>>

FailedIds(results) ==
    {results[i].rule_id : i \in {k \in DOMAIN results : results[k].result = "FAILURE"}}

Entries(results, id) == {i \in DOMAIN results : results[i].rule_id = id}

---------------------------------------------------------------------------
(* Claims on one rpc *)

\* C1: in every address-family sub-operation of an activation, the downstream
\* (enforcer or gy) activate_rules call comes after the stats controller's
\* activate_rules call of that sub-operation: whenever the stats app is
\* enabled such a call precedes it, and no stats call of the sub-operation
\* ever follows it.
C1_StatsBeforeDownstream ==
    \A j \in DOMAIN log :
        IsDownstreamActivate(log[j]) =>
            /\ ENFORCEMENT_STATS \in enabled =>
                   \E i \in 1..(j - 1) :
                       IsStatsActivate(log[i]) /\ SameSubOperation(log[i], log[j])
            /\ \A k \in (j + 1)..Len(log) :
                   ~(IsStatsActivate(log[k]) /\ SameSubOperation(log[k], log[j]))

C1_Witness ==
    \E i, j \in DOMAIN log :
        /\ i < j
        /\ IsStatsActivate(log[i]) /\ log[i].static # <<>>
        /\ IsDownstreamActivate(log[j]) /\ SameSubOperation(log[i], log[j])
        /\ log[j].fam = "ipv6"

\* C2: a rule the stats controller reports as FAILURE is in no rule list passed
\* to the downstream controller of that sub-operation, and the sub-operation's
\* merged outcome holds exactly one entry for it, a FAILURE (static ids in the
\* static results, dynamic rules in the dynamic results).
C2_FilteringCorrect ==
    \A i \in DOMAIN log :
        IsStatsActivate(log[i]) =>
            LET key == <<log[i].rid, log[i].fam>>
                down == {j \in DOMAIN log :
                            IsDownstreamActivate(log[j]) /\ SameSubOperation(log[i], log[j])}
            IN  /\ key \in DOMAIN outcome
                /\ down # {}
                /\ \A id \in FailedIds(log[i].res.static_rule_results) :
                       /\ \A j \in down : id \notin Range(log[j].static)
                       /\ Cardinality(Entries(outcome[key].static_rule_results, id)) = 1
                       /\ id \in FailedIds(outcome[key].static_rule_results)
                /\ \A id \in FailedIds(log[i].res.dynamic_rule_results) :
                       /\ \A j \in down : PolicyRule(id) \notin Range(log[j].dynamic)
                       /\ Cardinality(Entries(outcome[key].dynamic_rule_results, id)) = 1
                       /\ id \in FailedIds(outcome[key].dynamic_rule_results)

\* The scenario of the specification: ruleA and ruleB requested, the stats
\* controller fails ruleB, the enforcer receives ruleA alone.
C2_Witness ==
    \E i, j \in DOMAIN log :
        /\ IsStatsActivate(log[i]) /\ log[i].static = <<"ruleA", "ruleB">>
        /\ FailedIds(log[i].res.static_rule_results) = {"ruleB"}
        /\ IsDownstreamActivate(log[j]) /\ SameSubOperation(log[i], log[j])
        /\ log[j].static = <<"ruleA">>
        /\ outcome[<<log[i].rid, log[i].fam>>].static_rule_results
               = <<RuleModResult("ruleA", "SUCCESS"), RuleModResult("ruleB", "FAILURE")>>

RequestOf(e) == arrived[e.rid]

\* Every recorded sub-operation has made exactly one downstream call.
OneDownstreamCall ==
    \A key \in DOMAIN outcome :
        Cardinality({j \in DOMAIN log : IsDownstreamActivate(log[j])
                                            /\ <<log[j].rid, log[j].fam>> = key}) = 1

\* C7: each sub-operation of an activation makes one downstream call, on the
\* gy controller for a GY request and on the enforcer for a request of any
\* other origin, with the rules the stats stage did not fail.
C7_OtherOriginsToEnforcer ==
    /\ OneDownstreamCall
    /\ \A j \in DOMAIN log :
           IsDownstreamActivate(log[j]) =>
               /\ log[j].ctrl = IF RequestOf(log[j]).origin = "GY" THEN GY ELSE ENFORCEMENT
               /\ \A i \in DOMAIN log :
                      (IsStatsActivate(log[i]) /\ SameSubOperation(log[i], log[j])) =>
                          /\ Range(log[j].static) = Range(log[i].static)
                                 \ FailedIds(log[i].res.static_rule_results)
                          /\ {r.id : r \in Range(log[j].dynamic)}
                                 = {r.id : r \in Range(log[i].dynamic)}
                                       \ FailedIds(log[i].res.dynamic_rule_results)

\* A dual-stack GY activation has reached the gy controller for both
\* addresses, with a static rule for ipv4.
C7_Witness ==
    \E i, j \in DOMAIN log :
        /\ IsDownstreamActivate(log[i]) /\ log[i].ctrl = GY /\ log[i].static # <<>>
        /\ RequestOf(log[i]).origin = "GY"
        /\ IsDownstreamActivate(log[j]) /\ log[j].ctrl = GY /\ log[j].fam = "ipv6"
        /\ log[i].fam = "ipv4"

\* C8 as stated: an rpc that was dispatched has returned only if the callback
\* it posted has run to its end.
C8_ReturnsAfterWork ==
    \A t \in DOMAIN th :
        (th[t].pc = "returned" /\ th[t].resp.code = "OK") => ~Pending(th[t].rid)

\* C8 amended: an ActivateFlows or SetupPolicyFlows rpc that was dispatched has
\* returned only if the callback it posted has run to its end, with every
\* family's sub-operation (or the three restarts) done and its result in the
\* response; DeactivateFlows acknowledges without waiting.
C8_FutureRpcsReturnAfterWork ==
    \A t \in DOMAIN th :
        (th[t].pc = "returned" /\ th[t].resp.code = "OK"
             /\ th[t].req.kind \in {"activate", "setup"}) =>
            /\ ~Pending(th[t].rid)
            /\ fut[th[t].rid].done /\ th[t].resp.body = fut[th[t].rid].value
            /\ th[t].req.kind = "activate" =>
                   \A f \in FamiliesRun(th[t].req) : <<th[t].rid, f>> \in DOMAIN outcome
            /\ th[t].req.kind = "setup" =>
                   \A c \in Range(SetupControllers) :
                       \E i \in DOMAIN log : log[i].rid = th[t].rid /\ log[i].ctrl = c
                                                 /\ log[i].op = "handle_restart"

C8_Witness ==
    \E t \in DOMAIN th :
        /\ th[t].pc = "returned" /\ th[t].resp.code = "OK" /\ th[t].req.kind = "activate"
        /\ FamiliesRun(th[t].req) = Families
        /\ Len(th[t].resp.body.static_rule_results) = 2 * Len(th[t].req.rule_ids)
        /\ th[t].req.rule_ids # <<>>

\* The app whose capability the handler of a request asks for first, if any.
GatingApp(request) ==
    IF request.kind \in {"activate", "deactivate", "setup"} THEN ENFORCEMENT
    ELSE IF request.kind = "get_policy_usage" THEN ENFORCEMENT_STATS
    ELSE "none"

\* An rpc whose gating app is disabled is answered UNAVAILABLE with nothing
\* posted and nothing changed.
RejectedWhenGateDisabled ==
    \A t \in DOMAIN th :
        (th[t].pc # "idle" /\ GatingApp(th[t].req) \in Apps \ enabled) =>
            /\ th[t].pc = "returned" /\ th[t].resp.code = "UNAVAILABLE"
            /\ ~Pending(th[t].rid)
            /\ \A i \in DOMAIN log : log[i].rid # th[t].rid
            /\ \A k \in VersionKeys : version[k] = 0

\* C10 as stated: no call is made on, and no epoch recorded for, a controller
\* whose app is disabled, and an rpc whose gating app is disabled is answered
\* UNAVAILABLE with nothing posted and nothing changed.
C10_DisabledControllerUntouched ==
    /\ \A c \in Apps \ enabled :
           /\ \A i \in DOMAIN log : log[i].ctrl # c
           /\ epoch[c] = NoEpoch
    /\ RejectedWhenGateDisabled

---------------------------------------------------------------------------
(* Claims on setup rpcs *)

\* The setup rpcs before rid whose callback was posted (their restarts are in
\* the log or still to run).
AcceptedBefore(rid) ==
    {q \in 1..(rid - 1) :
        \/ Pending(q)
        \/ \E i \in DOMAIN log : log[i].rid = q /\ log[i].op = "handle_restart"}

\* The last epoch accepted before request rid arrived.
LastAcceptedBefore(rid) ==
    LET eps == {arrived[q].epoch : q \in AcceptedBefore(rid)} \cup {NoEpoch}
    IN  CHOOSE e \in eps : \A x \in eps : x <= e

RestartsOf(rid, controller) ==
    {i \in DOMAIN log : log[i].rid = rid /\ log[i].op = "handle_restart"
                            /\ log[i].ctrl = controller}

\* C3: with setup rpcs one after the other, an rpc that has returned was
\* accepted, each controller's handle_restart invoked once for it, exactly when
\* its epoch is greater than the last accepted one; with an equal or lower
\* epoch it is fenced, no controller is invoked for it, and it returns the
\* result kept from the restart of the last accepted epoch.
C3_SetupFencedByEpoch ==
    \A t \in DOMAIN th :
        (th[t].pc = "returned" /\ th[t].req.kind = "setup" /\ ENFORCEMENT \in enabled) =>
            LET rid == th[t].rid
                last == LastAcceptedBefore(rid)
            IN  IF th[t].req.epoch > last
                THEN /\ th[t].resp.code = "OK"
                     /\ \A c \in Range(SetupControllers) : Cardinality(RestartsOf(rid, c)) = 1
                ELSE /\ th[t].resp.code = "FENCED"
                     /\ \A i \in DOMAIN log : log[i].rid # rid
                     /\ th[t].resp.body.result.epoch = last
                     /\ \E q \in AcceptedBefore(rid) :
                            /\ arrived[q].epoch = last
                            /\ \E i \in RestartsOf(q, GY) :
                                   th[t].resp.body = FencedResult(log[i].res)

\* Setup(2) accepted, then Setup(2) and Setup(1) both fenced.
C3_Witness ==
    \E t \in DOMAIN th :
        /\ th[t].pc = "returned" /\ th[t].rid = 3 /\ th[t].resp.code = "FENCED"
        /\ arrived[1].epoch = 2 /\ arrived[2].epoch = 2 /\ arrived[3].epoch = 1
        /\ Len(log) = Len(SetupControllers)

\* The controllers whose epoch check accepted, and recorded, the epoch of the
\* setup rpc the thread is in.
EpochsRecordedBy(t) == {SetupControllers[i] : i \in 1..(th[t].idx - 1)}

\* C4 as stated: a setup rpc fenced by the epoch check of any controller has
\* recorded its epoch in no controller and invoked no restart.
C4_FencedSetupMutatesNothing ==
    \A t \in DOMAIN th :
        th[t].resp.code = "FENCED" =>
            /\ EpochsRecordedBy(t) = {}
            /\ \A i \in DOMAIN log : log[i].rid # th[t].rid

---------------------------------------------------------------------------
(* Claims on several rpcs *)

\* The rule ids a request names.
NamedRules(request) ==
    Range(request.rule_ids)
        \cup {request.dynamic_rules[i].id : i \in DOMAIN request.dynamic_rules}

\* The loop runs the sub-operation of family f of the callback it is in.
RunsSubOperation(f) ==
    /\ running.kind \in {"activate", "deactivate"}
    /\ running.pc = f
    /\ f \in FamiliesRun(running.req)
    /\ running' # running

\* C6: no step decreases a version, and the sub-operation of an activation or
\* deactivation for an address increases the version of every rule id the
\* request names, for that subscriber and address.
C6_VersionMonotonic ==
    [][/\ \A k \in VersionKeys : version'[k] >= version[k]
       /\ \A f \in Families :
              RunsSubOperation(f) =>
                  \A id \in NamedRules(running.req) :
                      LET k == <<running.req.sid, FamilyAddress(running.req, f), id>>
                      IN  version'[k] > version[k]]_vars

\* An activation naming ruleA as a dynamic rule and a deactivation naming it
\* have both run.
C6_Witness ==
    /\ Len(arrived) = 2
    /\ arrived[1].kind = "activate" /\ arrived[1].dynamic_rules # <<>>
    /\ arrived[2].kind = "deactivate"
    /\ \A f \in Families :
           version[<<"IMSI001", FamilyAddress(arrived[1], f), "ruleA">>] = 2

\* C9: the version updates and controller calls of one request are contiguous
\* in the order the loop makes them: none of another request lies between two
\* of them.
C9_NoInterleaving ==
    \A i, k \in DOMAIN log :
        (i < k /\ log[i].rid = log[k].rid) =>
            \A j \in i..k : log[j].rid = log[i].rid

\* Two requests in flight together: the second has run on the loop, after both
\* families of the first, while the first rpc has not yet returned.
C9_Witness ==
    \E i, j, k \in DOMAIN log :
        /\ i < j /\ j < k
        /\ log[i].rid = 1 /\ log[i].fam = "ipv4"
        /\ log[j].rid = 1 /\ log[j].fam = "ipv6"
        /\ log[k].rid = 2
        /\ \E t \in DOMAIN th : th[t].rid = 1 /\ th[t].pc = "wait"

---------------------------------------------------------------------------
(* Claims on the shape of an activation's result *)

\* The families a request runs, in the order _activate_flows processes them.
FamilyOrder(request) ==
    SelectSeq(<<"ipv4", "ipv6">>, LAMBDA f : f \in FamiliesRun(request))

\* The calls of the log made in sub-operation <<rid, f>>, in order.
SubOperationLog(rid, f) ==
    SelectSeq(log, LAMBDA e : e.rid = rid /\ e.fam = f)

\* C11: the response of a dual-stack activation holds the static results of
\* the ipv4 sub-operation followed by those of the ipv6 sub-operation, and the
\* same for the dynamic results; each family has made its own version updates
\* and its own downstream call.
C11_DualStackConcatenation ==
    \A t \in DOMAIN th :
        (th[t].pc = "returned" /\ th[t].resp.code = "OK" /\ th[t].req.kind = "activate"
             /\ th[t].req.ip_addr # "" /\ th[t].req.ipv6_addr # "") =>
            LET rid == th[t].rid
                v4 == <<rid, "ipv4">>
                v6 == <<rid, "ipv6">>
            IN  /\ v4 \in DOMAIN outcome /\ v6 \in DOMAIN outcome
                /\ th[t].resp.body.static_rule_results
                       = outcome[v4].static_rule_results \o outcome[v6].static_rule_results
                /\ th[t].resp.body.dynamic_rule_results
                       = outcome[v4].dynamic_rule_results \o outcome[v6].dynamic_rule_results
                /\ \A f \in Families :
                       LET l == SubOperationLog(rid, f)
                       IN  /\ Cardinality({i \in DOMAIN l : IsDownstreamActivate(l[i])}) = 1
                           /\ Cardinality({i \in DOMAIN l : l[i].op = "update_version"})
                                  = Len(th[t].req.rule_ids) + Len(th[t].req.dynamic_rules)
                           /\ \A id \in NamedRules(th[t].req) :
                                  version[<<th[t].req.sid, FamilyAddress(th[t].req, f), id>>] >= 1

\* A dual-stack activation of ruleA whose ipv4 sub-operation failed and whose
\* ipv6 sub-operation succeeded: the response holds both, ipv4 first.
C11_Witness ==
    \E t \in DOMAIN th :
        /\ th[t].pc = "returned" /\ th[t].resp.code = "OK" /\ th[t].req.kind = "activate"
        /\ th[t].req.ip_addr # "" /\ th[t].req.ipv6_addr # ""
        /\ th[t].resp.body.static_rule_results
               = <<RuleModResult("ruleA", "FAILURE"), RuleModResult("ruleA", "SUCCESS")>>

\* The results the stats controller returned in the sub-operation of call e
\* (none when the stats app is disabled: no call is made).
StatsResultsOf(e) ==
    LET calls == {i \in DOMAIN log : IsStatsActivate(log[i]) /\ SameSubOperation(log[i], e)}
    IN  IF calls = {} THEN ActivateFlowsResult(<<>>, <<>>)
        ELSE log[CHOOSE i \in calls : TRUE].res

\* C12: the downstream call of a sub-operation is given the static ids and the
\* dynamic rules of the request, in request order, without those the stats
\* controller failed; the outcome of the sub-operation starts with the results
\* the downstream controller returned for them; every sub-operation that ran
\* has made its downstream call.
C12_OnlyFailedRulesSuppressed ==
    /\ \A j \in DOMAIN log :
           IsDownstreamActivate(log[j]) =>
               LET request == RequestOf(log[j])
                   stats == StatsResultsOf(log[j])
                   key == <<log[j].rid, log[j].fam>>
                   down == log[j].res
               IN  /\ log[j].static
                          = SelectSeq(request.rule_ids,
                                      LAMBDA id : id \notin FailedIds(stats.static_rule_results))
                   /\ log[j].dynamic
                          = SelectSeq(request.dynamic_rules,
                                      LAMBDA r : r.id \notin FailedIds(stats.dynamic_rule_results))
                   /\ key \in DOMAIN outcome
                   /\ SubSeq(outcome[key].static_rule_results, 1, Len(down.static_rule_results))
                          = down.static_rule_results
                   /\ SubSeq(outcome[key].dynamic_rule_results, 1,
                             Len(down.dynamic_rule_results))
                          = down.dynamic_rule_results
    /\ \A i \in DOMAIN log :
           IsStatsActivate(log[i]) =>
               \E j \in (i + 1)..Len(log) :
                   IsDownstreamActivate(log[j]) /\ SameSubOperation(log[i], log[j])

\* Dynamic rules ruleA and ruleB: the stats controller fails ruleA, ruleB
\* alone goes downstream, where it fails.
C12_Witness ==
    \E i, j \in DOMAIN log :
        /\ IsStatsActivate(log[i])
        /\ log[i].dynamic = <<PolicyRule("ruleA"), PolicyRule("ruleB")>>
        /\ FailedIds(log[i].res.dynamic_rule_results) = {"ruleA"}
        /\ IsDownstreamActivate(log[j]) /\ SameSubOperation(log[i], log[j])
        /\ log[j].dynamic = <<PolicyRule("ruleB")>>
        /\ <<log[j].rid, log[j].fam>> \in DOMAIN outcome
        /\ outcome[<<log[j].rid, log[j].fam>>].dynamic_rule_results
               = <<RuleModResult("ruleB", "FAILURE"), RuleModResult("ruleA", "FAILURE")>>

---------------------------------------------------------------------------
(* Claims on deactivation *)

IsDefaultFlowRemoval(e) == e.ctrl = ENFORCEMENT_STATS /\ e.op = "deactivate_default_flow"

IsRuleRemoval(e) == e.op = "deactivate_rules"

\* The sub-operations of the deactivations whose callback has run to its end.
DeactivationsDone ==
    {<<t, f>> \in (DOMAIN th) \X Families :
        th[t].req.kind = "deactivate" /\ Completed(t) /\ f \in FamiliesRun(th[t].req)}

\* C13: in a deactivation of any origin but GY with the remove-default-flow
\* flag, each sub-operation makes one default-flow removal on the stats
\* controller, and it comes before the enforcer's rule removal; with no flag,
\* or origin GY, no default-flow removal is made.
C13_DefaultFlowFirstUnlessGy ==
    \A d \in DeactivationsDone :
        LET request == th[d[1]].req
            l == SubOperationLog(th[d[1]].rid, d[2])
            removals == {i \in DOMAIN l : IsDefaultFlowRemoval(l[i])}
        IN  IF request.origin # "GY" /\ request.remove_default_drop_flows
            THEN /\ Cardinality(removals) = 1
                 /\ \A i \in removals :
                        /\ \E j \in DOMAIN l :
                               i < j /\ IsRuleRemoval(l[j]) /\ l[j].ctrl = ENFORCEMENT
                        /\ \A j \in 1..i : ~IsRuleRemoval(l[j])
            ELSE removals = {}

\* A dual-stack GX deactivation with the flag has run.
C13_Witness ==
    \E t \in DOMAIN th :
        /\ <<t, "ipv4">> \in DeactivationsDone /\ <<t, "ipv6">> \in DeactivationsDone
        /\ th[t].req.origin = "GX" /\ th[t].req.remove_default_drop_flows
        /\ Cardinality({i \in DOMAIN log : IsDefaultFlowRemoval(log[i])}) = 2

\* C14: each sub-operation of a deactivation makes one rule removal, with the
\* rule ids of the request, on the gy controller for origin GY and on the
\* enforcer for any other origin, and none on the stats controller.
C14_RemovalToEnforcerUnlessGy ==
    \A d \in DeactivationsDone :
        LET request == th[d[1]].req
            l == SubOperationLog(th[d[1]].rid, d[2])
            removals == {i \in DOMAIN l : IsRuleRemoval(l[i])}
        IN  /\ Cardinality(removals) = 1
            /\ \A i \in removals :
                   /\ l[i].ctrl = IF request.origin = "GY" THEN GY ELSE ENFORCEMENT
                   /\ l[i].static = request.rule_ids

\* A dual-stack GY deactivation naming a rule has run: the gy controller
\* removed it for both addresses.
C14_Witness ==
    \E t \in DOMAIN th :
        /\ <<t, "ipv4">> \in DeactivationsDone /\ <<t, "ipv6">> \in DeactivationsDone
        /\ th[t].req.origin = "GY" /\ th[t].req.rule_ids # <<>>
        /\ Cardinality({i \in DOMAIN log : IsRuleRemoval(log[i]) /\ log[i].ctrl = GY}) = 2

---------------------------------------------------------------------------
(* Claims on the replay of a snapshot *)

\* The setup requests whose callback has run.
SetupsReplayed ==
    {rid \in DOMAIN arrived :
        arrived[rid].kind = "setup"
            /\ \E i \in DOMAIN log : log[i].rid = rid /\ log[i].op = "handle_restart"}

\* The sub-requests of a snapshot that have the given origin, in its order.
PartitionOf(request, origin) ==
    LET keep == {n \in DOMAIN request.requests : request.requests[n].origin = origin}
        Place(m) == CHOOSE n \in keep : Cardinality({k \in keep : k < n}) = m - 1
    IN  [m \in 1..Cardinality(keep) |-> request.requests[Place(m)]]

\* C15: an accepted setup invokes each controller's handle_restart once, the
\* enforcer and the stats controller with the GX sub-requests and the gy
\* controller with the GY sub-requests; it makes no activate_rules call and
\* no version update; every sub-request of the snapshot is in the list given
\* to some controller.
C15_SnapshotReplayedWhole ==
    \A rid \in SetupsReplayed :
        LET request == arrived[rid]
        IN  /\ \A c \in Range(SetupControllers) :
                   \/ Pending(rid) /\ RestartsOf(rid, c) = {}
                   \/ /\ Cardinality(RestartsOf(rid, c)) = 1
                      /\ \A i \in RestartsOf(rid, c) :
                             log[i].reqs = PartitionOf(request,
                                                       IF c = GY THEN "GY" ELSE "GX")
            /\ \A i \in DOMAIN log :
                   log[i].rid = rid => log[i].op = "handle_restart"
            /\ \A k \in VersionKeys : version[k] = 0
            /\ ~Pending(rid) =>
                   \A n \in DOMAIN request.requests :
                       \E i \in DOMAIN log :
                           /\ log[i].rid = rid /\ log[i].op = "handle_restart"
                           /\ request.requests[n] \in Range(log[i].reqs)

\* A snapshot of a GX and a GY sub-request has been replayed: the enforcer and
\* the stats controller were given the first, the gy controller the second.
C15_Witness ==
    \E rid \in SetupsReplayed :
        /\ ~Pending(rid)
        /\ Len(arrived[rid].requests) = 2
        /\ arrived[rid].requests[1].origin = "GX"
        /\ arrived[rid].requests[2].origin = "GY"
        /\ \A c \in Range(SetupControllers) :
               \E i \in RestartsOf(rid, c) :
                   log[i].reqs = <<arrived[rid].requests[IF c = GY THEN 2 ELSE 1]>>

---------------------------------------------------------------------------
(* Claims on the order of version updates and controller calls *)

IsVersionUpdate(e) == e.op = "update_version"

\* C16: in a sub-operation of an activation or a deactivation, every version
\* update comes before the first call on a controller: at a controller call,
\* each rule id the request names has had its update in this sub-operation
\* (the wildcard for a GX deactivation naming none), and no update follows.
C16_VersionUpdatesFirst ==
    \A j \in DOMAIN log :
        (~IsVersionUpdate(log[j]) /\ RequestOf(log[j]).kind \in {"activate", "deactivate"}) =>
            LET request == RequestOf(log[j])
                before == {i \in 1..(j - 1) :
                              IsVersionUpdate(log[i]) /\ SameSubOperation(log[i], log[j])}
            IN  /\ \A k \in (j + 1)..Len(log) :
                       ~(IsVersionUpdate(log[k]) /\ SameSubOperation(log[k], log[j]))
                /\ \A id \in NamedRules(request) :
                       \E i \in before : log[i].static = <<id>>
                /\ Cardinality(before) >= Len(request.rule_ids) + Len(request.dynamic_rules)
                /\ (request.kind = "deactivate" /\ request.rule_ids = <<>>
                        /\ request.origin = "GX") =>
                       \E i \in before : IsWildcardBump(log[i])

\* With the stats app disabled, a gy activation of two rules: two version
\* updates, then the gy controller's call.
C16_Witness ==
    /\ ENFORCEMENT_STATS \notin enabled
    /\ Len(log) >= 3
    /\ IsVersionUpdate(log[1]) /\ IsVersionUpdate(log[2])
    /\ log[3].ctrl = GY /\ log[3].op = "activate_rules"
    /\ FailedIds(log[3].res.static_rule_results) # {}

---------------------------------------------------------------------------
(* Claims on the failure counters *)

\* The results a controller returned on call e, static then dynamic.
Reported(e) == e.res.static_rule_results \o e.res.dynamic_rule_results

\* The FAILURE results for rule id that the controllers of ctrls returned to
\* the activations of subscriber imsi: <<call, position in its results>>.
FailureEntries(ctrls, imsi, id) ==
    UNION {{<<i, k>> : k \in {n \in DOMAIN Reported(log[i]) :
                                 /\ Reported(log[i])[n].result = "FAILURE"
                                 /\ Reported(log[i])[n].rule_id = id}} :
              i \in {j \in DOMAIN log : /\ log[j].op = "activate_rules"
                                         /\ log[j].ctrl \in ctrls
                                         /\ RequestOf(log[j]).sid = imsi}}

\* C17 as stated: the stats counter of (subscriber, rule) counts the FAILURE
\* results the stats controller returned for them, and the downstream counter
\* those the enforcer and the gy controller returned; a SUCCESS counts nothing.
C17_EveryFailureCounted ==
    \A imsi \in Sids, id \in RuleIds :
        /\ metrics[<<ENFORCEMENT_STATS_RULE_INSTALL_FAIL, imsi, id>>]
               = Cardinality(FailureEntries({ENFORCEMENT_STATS}, imsi, id))
        /\ metrics[<<ENFORCEMENT_RULE_INSTALL_FAIL, imsi, id>>]
               = Cardinality(FailureEntries({ENFORCEMENT, GY}, imsi, id))

---------------------------------------------------------------------------
(* Claims on the stores *)

\* C18: when the callback of an activation has run, the tunnel store holds the
\* request's (uplink, downlink) pair exactly if both ids are set, and the
\* prefix store the request's ipv6 prefix exactly if it has an ipv6 address,
\* whatever the controllers reported.
C18_StoresFollowRequest ==
    \A t \in DOMAIN th :
        (th[t].req.kind = "activate" /\ Completed(t)) =>
            LET request == th[t].req
            IN  /\ tunnel_store
                       = IF request.uplink_tunnel # 0 /\ request.downlink_tunnel # 0
                         THEN {<<request.uplink_tunnel, request.downlink_tunnel>>}
                         ELSE {}
                /\ prefix_store
                       = IF request.ipv6_addr # ""
                         THEN {[interface |-> <<"interface_id", request.ipv6_addr>>,
                                prefix |-> <<"prefix", request.ipv6_addr>>]}
                         ELSE {}

\* Both tunnel ids and an ipv6 address, and every rule failed: both stores
\* are written.
C18_Witness ==
    \E t \in DOMAIN th :
        /\ th[t].req.kind = "activate" /\ Completed(t)
        /\ th[t].req.uplink_tunnel # 0 /\ th[t].req.downlink_tunnel # 0
        /\ th[t].req.ipv6_addr # "" /\ th[t].req.rule_ids = <<"ruleA", "ruleB">>
        /\ <<th[t].rid, "ipv6">> \in DOMAIN outcome
        /\ FailedIds(outcome[<<th[t].rid, "ipv6">>].static_rule_results) = {"ruleA", "ruleB"}
        /\ tunnel_store # {} /\ prefix_store # {}

---------------------------------------------------------------------------
(* Claims on the order of requests *)

\* C19: the loop runs the callbacks in the order they were posted: every
\* version update and controller call of a request comes before every one of
\* a request posted after it, in particular of one issued after a deactivation
\* was acknowledged; what is still queued was posted after what runs.
C19_PostedOrder ==
    /\ \A i, k \in DOMAIN log : log[i].rid < log[k].rid => i < k
    /\ \A i \in DOMAIN queue :
           /\ running.kind # "none" => running.rid < queue[i].rid
           /\ \A k \in DOMAIN log : log[k].rid < queue[i].rid

\* One thread had a deactivation acknowledged and then issued an activation
\* for the same subscriber: both have run, the deactivation first.
C19_Witness ==
    /\ Len(arrived) = 2
    /\ arrived[1].kind = "deactivate" /\ arrived[2].kind = "activate"
    /\ arrived[1].sid = arrived[2].sid
    /\ \E t \in DOMAIN th : th[t].rid = 2 /\ \A u \in DOMAIN th \ {t} : th[u] = IdleThread
    /\ \E i, k \in DOMAIN log : i < k /\ log[i].rid = 1 /\ log[k].rid = 2
    /\ ~Pending(2)

---------------------------------------------------------------------------
(* Claims on termination *)

\* A thread is inside ActivateFlows, or inside a SetupPolicyFlows that passed
\* its epoch checks: its callback is posted or about to be.
Blocked == \E t \in DOMAIN th : th[t].pc \in {"post", "wait"}

\* The thread's rpc has returned the result its callback set.
Answered ==
    \E t \in DOMAIN th :
        /\ th[t].pc = "returned" /\ th[t].resp.code = "OK"
        /\ fut[th[t].rid].done /\ th[t].resp.body = fut[th[t].rid].value

\* C20: with a loop that keeps draining its queue, an ActivateFlows rpc and an
\* accepted SetupPolicyFlows rpc eventually return the result of their
\* future, whatever addresses the request carries and whatever the
\* controllers report.
C20_BlockingCallsReturn == Blocked ~> Answered

\* An activation with no address at all (no family runs) has returned an
\* empty result.
C20_Witness ==
    \E t \in DOMAIN th :
        /\ th[t].pc = "returned" /\ th[t].resp.code = "OK" /\ th[t].req.kind = "activate"
        /\ FamiliesRun(th[t].req) = {} /\ th[t].req.rule_ids # <<>>
        /\ th[t].resp.body = ActivateFlowsResult(<<>>, <<>>)

---------------------------------------------------------------------------
(* Claims on MAC address association *)

\* C21: an AddUEMacFlow or DeleteUEMacFlow rpc whose mac_addr is not 17
\* characters long returns INVALID_ARGUMENT (UNAVAILABLE when the UE MAC app
\* is disabled, the check that comes first), and nothing is posted to the
\* loop, no future completed and no controller called for it.
C21_BadMacRejectedBeforeDispatch ==
    \A t \in DOMAIN th :
        (th[t].req.kind \in {"add_ue_mac", "delete_ue_mac"}
             /\ Len(th[t].req.mac_addr) # MacLen) =>
            /\ th[t].pc = "returned"
            /\ th[t].resp.code = IF UE_MAC \in enabled THEN "INVALID_ARGUMENT"
                                  ELSE "UNAVAILABLE"
            /\ ~Pending(th[t].rid)
            /\ ~fut[th[t].rid].done
            /\ \A i \in DOMAIN log : log[i].rid # th[t].rid
            /\ queue = <<>> /\ running = NoWork /\ log = <<>>

\* A DeleteUEMacFlow with 16 characters, every app enabled, was answered
\* INVALID_ARGUMENT.
C21_Witness ==
    \E t \in DOMAIN th :
        /\ th[t].req.kind = "delete_ue_mac" /\ Len(th[t].req.mac_addr) = MacLen - 1
        /\ enabled = MacApps
        /\ th[t].pc = "returned" /\ th[t].resp.code = "INVALID_ARGUMENT"

---------------------------------------------------------------------------
(* Claims on concurrent setups *)

IsRestart(e) == e.op = "handle_restart"

\* C22 as stated: the restarts of setup rpcs that passed the epoch checks
\* reach each controller in increasing epoch order, and once every rpc has
\* returned the last restart a controller ran is that of the highest accepted
\* epoch.
C22_RestartsInEpochOrder ==
    /\ \A i, k \in DOMAIN log :
           (i < k /\ IsRestart(log[i]) /\ IsRestart(log[k]) /\ log[i].ctrl = log[k].ctrl) =>
               arrived[log[i].rid].epoch <= arrived[log[k].rid].epoch
    /\ (\A t \in DOMAIN th : th[t].pc \in {"idle", "returned"}) =>
           \A k \in DOMAIN log :
               (IsRestart(log[k]) /\ \A j \in (k + 1)..Len(log) : log[j].ctrl # log[k].ctrl) =>
                   arrived[log[k].rid].epoch = epoch[log[k].ctrl]

---------------------------------------------------------------------------
(* Claims on the stats app being disabled *)

\* C23: with the stats app disabled, an activation makes no activate_rules
\* call on the stats controller and counts no stats failure; each
\* sub-operation updates the version of every rule named, then gives the
\* downstream controller the rule ids and dynamic rules of the request as
\* they are, and its outcome is what that controller returned.
C23_StatsStageSkipped ==
    ENFORCEMENT_STATS \notin enabled =>
        /\ \A i \in DOMAIN log : ~IsStatsActivate(log[i])
        /\ \A imsi \in Sids, id \in RuleIds :
               metrics[<<ENFORCEMENT_STATS_RULE_INSTALL_FAIL, imsi, id>>] = 0
        /\ \A key \in DOMAIN outcome :
               \E j \in DOMAIN log :
                   IsDownstreamActivate(log[j]) /\ <<log[j].rid, log[j].fam>> = key
        /\ \A j \in DOMAIN log :
               IsDownstreamActivate(log[j]) =>
                   LET request == RequestOf(log[j])
                       key == <<log[j].rid, log[j].fam>>
                       updates == {i \in 1..(j - 1) : IsVersionUpdate(log[i])
                                                         /\ SameSubOperation(log[i], log[j])}
                   IN  /\ log[j].static = request.rule_ids
                       /\ log[j].dynamic = request.dynamic_rules
                       /\ key \in DOMAIN outcome /\ outcome[key] = log[j].res
                       /\ Cardinality(updates)
                              = Len(request.rule_ids) + Len(request.dynamic_rules)
                       /\ \A id \in NamedRules(request) :
                              \E i \in updates : log[i].static = <<id>>

\* The stats app disabled, a GX activation of ruleA and ruleB over ipv6: the
\* enforcer gets both, fails ruleB, and that is the outcome.
C23_Witness ==
    /\ ENFORCEMENT_STATS \notin enabled
    /\ \E j \in DOMAIN log :
           /\ IsDownstreamActivate(log[j]) /\ log[j].ctrl = ENFORCEMENT
           /\ log[j].fam = "ipv6"
           /\ log[j].static = <<"ruleA", "ruleB">>
           /\ <<log[j].rid, "ipv6">> \in DOMAIN outcome
           /\ outcome[<<log[j].rid, "ipv6">>].static_rule_results
                  = <<RuleModResult("ruleA", "SUCCESS"), RuleModResult("ruleB", "FAILURE")>>

---------------------------------------------------------------------------
(* Claims on requests without an address *)

\* The activations and deactivations without an address whose callback has
\* run to its end.
AddressLessDone ==
    {t \in DOMAIN th :
        /\ th[t].req.kind \in {"activate", "deactivate"} /\ Completed(t)
        /\ th[t].req.ip_addr = "" /\ th[t].req.ipv6_addr = ""}

\* C24: a request with neither address, when setup_type is not CWF, updates no
\* version and calls no controller, and an activation returns an empty result
\* whatever rules it names; when setup_type is CWF the ipv4 branch runs, with
\* the empty address: the versions of the rules named are updated for it and
\* the downstream controller is called, and the ipv6 branch does not run.
C24_NoAddressNoEffect ==
    \A t \in AddressLessDone :
        LET request == th[t].req
            rid == th[t].rid
            absent == convert_ipv4_str_to_ip_proto("")
        IN  IF setup_type # "CWF"
            THEN /\ \A i \in DOMAIN log : log[i].rid # rid
                 /\ \A k \in VersionKeys : version[k] = 0
                 /\ \A f \in Families : <<rid, f>> \notin DOMAIN outcome
                 /\ (request.kind = "activate" /\ th[t].pc = "returned") =>
                        th[t].resp.body = ActivateFlowsResult(<<>>, <<>>)
            ELSE /\ \E i \in DOMAIN log :
                        /\ log[i].rid = rid /\ log[i].fam = "ipv4"
                        /\ IsDownstreamActivate(log[i]) \/ IsRuleRemoval(log[i])
                 /\ \A i \in DOMAIN log : log[i].rid = rid => log[i].fam = "ipv4"
                 /\ \A id \in NamedRules(request) : version[<<request.sid, absent, id>>] >= 1
                 /\ \A k \in VersionKeys : k[2] # absent => version[k] = 0

\* Not CWF: a deactivation naming rules but no address has run and nothing
\* was called.
C24_Witness ==
    \E t \in AddressLessDone :
        /\ setup_type # "CWF"
        /\ th[t].req.kind = "deactivate" /\ th[t].req.rule_ids # <<>>
        /\ th[t].req.remove_default_drop_flows
        /\ log = <<>>

---------------------------------------------------------------------------
(* Claims on the result of a setup *)

\* The controllers restarted for request rid, in the order of the calls.
RestartOrder(rid) ==
    LET l == SelectSeq(log, LAMBDA e : e.rid = rid /\ IsRestart(e))
    IN  [i \in DOMAIN l |-> l[i].ctrl]

\* C25: a setup rpc that was accepted returns what the enforcer's
\* handle_restart returned, whatever the gy and stats controllers returned;
\* the restarts are made in the order enforcer, gy, stats, so the result is
\* known before the other two are invoked.
C25_SetupReturnsEnforcerResult ==
    \A t \in DOMAIN th :
        (th[t].req.kind = "setup" /\ th[t].pc = "returned" /\ th[t].resp.code = "OK") =>
            /\ RestartOrder(th[t].rid) = <<ENFORCEMENT, GY, ENFORCEMENT_STATS>>
            /\ \A i \in RestartsOf(th[t].rid, ENFORCEMENT) :
                   /\ th[t].resp.body = log[i].res
                   /\ \A c \in {GY, ENFORCEMENT_STATS} :
                          \A j \in RestartsOf(th[t].rid, c) : i < j

\* The enforcer's restart succeeded, those of gy and stats failed: the setup
\* returned SUCCESS.
C25_Witness ==
    \E t \in DOMAIN th :
        /\ th[t].req.kind = "setup" /\ th[t].pc = "returned" /\ th[t].resp.code = "OK"
        /\ th[t].resp.body.result = "SUCCESS"
        /\ \A c \in {GY, ENFORCEMENT_STATS} :
               \E j \in RestartsOf(th[t].rid, c) : log[j].res.result = "FAILURE"

---------------------------------------------------------------------------
(* Claims on rule identifiers *)

\* C26: static rule ids and dynamic rules are filtered apart: a static rule id
\* of the request is in the downstream call exactly if the stats controller's
\* static results do not fail it, and a dynamic rule exactly if the dynamic
\* results do not fail it, also when one id names both a static and a dynamic
\* rule.
C26_SeparateNamespaces ==
    \A j \in DOMAIN log :
        IsDownstreamActivate(log[j]) =>
            LET request == RequestOf(log[j])
                stats == StatsResultsOf(log[j])
            IN  /\ \A id \in Range(request.rule_ids) :
                       id \in Range(log[j].static)
                           <=> id \notin FailedIds(stats.static_rule_results)
                /\ \A rule \in Range(request.dynamic_rules) :
                       rule \in Range(log[j].dynamic)
                           <=> rule.id \notin FailedIds(stats.dynamic_rule_results)

\* ruleA requested as a static id and as a dynamic rule: the stats controller
\* fails the static one alone, and the dynamic one goes downstream.
C26_Witness ==
    \E i, j \in DOMAIN log :
        /\ IsStatsActivate(log[i]) /\ log[i].static = <<"ruleA">>
        /\ log[i].dynamic = <<PolicyRule("ruleA")>>
        /\ FailedIds(log[i].res.static_rule_results) = {"ruleA"}
        /\ FailedIds(log[i].res.dynamic_rule_results) = {}
        /\ IsDownstreamActivate(log[j]) /\ SameSubOperation(log[i], log[j])
        /\ log[j].static = <<>> /\ log[j].dynamic = <<PolicyRule("ruleA")>>

====
